---- MODULE Spec2Model ----
(***************************************************************************)
(* Match scoring and similarity resolution engine of seedtech              *)
(* (src/api/similarity.py, src/api/database.py, src/api/scoring.py).       *)
(*                                                                         *)
(* Scores are integers in hundredths (1.0 is 100, 0.5 is 50).  Weights are *)
(* integers in thousandths (0.025 is 25).  Texts are strings; a character  *)
(* is a string of length one.                                              *)
(***************************************************************************)
EXTENDS Integers, Sequences, FiniteSets, TLC

VARIABLES
    memo,               \* lru_cache of calculate_skill_similarity: <<skill1, skill2>> -> score
    redis,              \* fast tier: key string -> score
    pg,                 \* durable tier: per cache_type, <<text1, text2>> -> [score, timestamp]
    max_cache_entries,  \* MAX_CACHE_ENTRIES as read from the environment at import
    now,                \* int(time.time())
    thr,                \* the callers of the get_*_similarity functions
    calls,              \* similarity calls started so far
    job,                \* the job handed to adaptive_weights
    weights,            \* the weights adaptive_weights returned
    match_results,      \* table match_results: the set of its rows
    sc,                 \* the caller of calculate_match_score
    score_calls,        \* calculate_match_score calls started so far
    ticks,              \* clock steps taken so far
    call_args,          \* the arguments of a function called on its own
    call_result         \* that call's progress and what it returned

simVars == <<memo, redis, pg, max_cache_entries, thr, calls>>
weightVars == <<job, weights>>
scoreVars == <<match_results, sc, score_calls>>
fnVars == <<call_args, call_result>>
vars == <<memo, redis, pg, max_cache_entries, now, thr, calls, job, weights,
          match_results, sc, score_calls, ticks, call_args, call_result>>

(***************************************************************************)
(* Bounds of the model.                                                    *)
(***************************************************************************)
MaxCalls == 2
MaxTicks == 2
MaxScoreCalls == 2

(***************************************************************************)
(* Characters and strings as Python orders and transforms them.            *)
(***************************************************************************)
\* ASCII 32..126 in code point order (sorted() compares strings by code point),
\* without the double quote, the backslash and the backquote, which no modelled
\* text holds.
Ascii == " !#$%&'()*+,-./0123456789:;<=>?@ABCDEFGHIJKLMNOPQRSTUVWXYZ[]^_abcdefghijklmnopqrstuvwxyz{|}~"
Uppercase == "ABCDEFGHIJKLMNOPQRSTUVWXYZ"
Lowercase == "abcdefghijklmnopqrstuvwxyz"
\* string.punctuation, without the same three characters
Punctuation == "!#$%&'()*+,-./:;<=>?@[]^_{|}~"
\* the ASCII characters str.strip() removes that the inputs can hold
Whitespace == " "
Digits == "0123456789"

CharAt(s, i) == SubSeq(s, i, i)
IsIn(c, s) == \E i \in 1..Len(s) : CharAt(s, i) = c
IndexIn(c, s) == CHOOSE i \in 1..Len(s) : CharAt(s, i) = c
CharCode(c) == IndexIn(c, Ascii)

\* str.lower() on one character
LowerChar(c) == IF IsIn(c, Uppercase) THEN CharAt(Lowercase, IndexIn(c, Uppercase)) ELSE c

RECURSIVE lower(_)
lower(s) == IF s = "" THEN "" ELSE LowerChar(CharAt(s, 1)) \o lower(Tail(s))

\* text.translate(str.maketrans('', '', string.punctuation))
RECURSIVE strip_punctuation(_)
strip_punctuation(s) ==
    IF s = "" THEN ""
    ELSE IF IsIn(CharAt(s, 1), Punctuation) THEN strip_punctuation(Tail(s))
    ELSE CharAt(s, 1) \o strip_punctuation(Tail(s))

RECURSIVE lstrip(_)
lstrip(s) == IF s # "" /\ IsIn(CharAt(s, 1), Whitespace) THEN lstrip(Tail(s)) ELSE s

RECURSIVE rstrip(_)
rstrip(s) ==
    IF s # "" /\ IsIn(CharAt(s, Len(s)), Whitespace)
    THEN rstrip(SubSeq(s, 1, Len(s) - 1)) ELSE s

strip(s) == lstrip(rstrip(s))

normalize_text(text) == IF text = "" THEN "" ELSE strip(strip_punctuation(lower(text)))

\* s < t for Python strings
RECURSIVE StrLess(_, _)
StrLess(s, t) ==
    IF t = "" THEN FALSE
    ELSE IF s = "" THEN TRUE
    ELSE IF CharAt(s, 1) = CharAt(t, 1) THEN StrLess(Tail(s), Tail(t))
    ELSE CharCode(CharAt(s, 1)) < CharCode(CharAt(t, 1))

\* sorted([text1, text2])
sorted_texts(text1, text2) == IF StrLess(text2, text1) THEN <<text2, text1>> ELSE <<text1, text2>>

(***************************************************************************)
(* Program constants.                                                      *)
(***************************************************************************)
NEUTRAL_SCORE == 50         \* the 0.5 of semantic_similarity_chatgpt
EXACT_SCORE == 100          \* the 1.0 of an exact match
EMPTY_SCORE == 0            \* the 0.0 of an empty operand
BASE_RELATION_SCORE == 85   \* base <-> related
SAME_BASE_SCORE == 70       \* both related to one base
DAY_SECONDS == 86400        \* the freshness window of a stored match result

\* TECH_SKILLS_RELATIONS, in the order of the dict
TECH_SKILLS_RELATIONS == <<
    [base |-> "javascript", related |-> {"js", "es6", "ecmascript", "typescript", "angular", "react", "vue", "node.js", "jquery"}],
    [base |-> "typescript", related |-> {"ts", "javascript", "angular", "react"}],
    [base |-> "python", related |-> {"django", "flask", "fastapi", "numpy", "pandas", "scipy", "tensorflow", "pytorch", "scikit-learn", "machine learning"}],
    [base |-> "java", related |-> {"spring", "hibernate", "j2ee", "kotlin", "scala", "android"}],
    [base |-> "c#", related |-> {"dotnet", ".net", "asp.net", "entity framework", "xamarin", "unity"}],
    [base |-> "c++", related |-> {"c", "stl", "boost", "qt", "unreal engine"}],
    [base |-> "php", related |-> {"laravel", "symfony", "wordpress", "drupal", "magento"}],
    [base |-> "ruby", related |-> {"ruby on rails", "sinatra", "rspec"}],
    [base |-> "swift", related |-> {"ios", "cocoa", "objective-c", "xcode"}],
    [base |-> "go", related |-> {"golang", "gin", "echo"}],
    [base |-> "rust", related |-> {"cargo", "actix", "tokio"}],
    [base |-> "html", related |-> {"html5", "css", "web development", "front-end", "frontend"}],
    [base |-> "css", related |-> {"scss", "sass", "less", "bootstrap", "tailwind", "styled components", "html"}],
    [base |-> "react", related |-> {"react.js", "reactjs", "jsx", "redux", "react native", "javascript", "typescript"}],
    [base |-> "angular", related |-> {"angularjs", "typescript", "javascript"}],
    [base |-> "vue", related |-> {"vuejs", "vue.js", "nuxt", "javascript"}],
    [base |-> "sql", related |-> {"mysql", "postgresql", "oracle", "ms sql", "sqlite", "database", "db"}],
    [base |-> "nosql", related |-> {"mongodb", "couchdb", "firebase", "dynamodb", "database", "db"}],
    [base |-> "mongodb", related |-> {"mongo", "nosql", "database", "db"}],
    [base |-> "postgresql", related |-> {"postgres", "sql", "database", "db"}],
    [base |-> "aws", related |-> {"amazon web services", "ec2", "s3", "lambda", "cloud"}],
    [base |-> "azure", related |-> {"microsoft azure", "cloud"}],
    [base |-> "gcp", related |-> {"google cloud platform", "cloud"}],
    [base |-> "docker", related |-> {"container", "kubernetes", "k8s", "devops"}],
    [base |-> "kubernetes", related |-> {"k8s", "container orchestration", "docker", "devops"}],
    [base |-> "ci/cd", related |-> {"continuous integration", "continuous deployment", "jenkins", "github actions", "gitlab ci", "devops"}],
    [base |-> "machine learning", related |-> {"ml", "ai", "artificial intelligence", "data science", "deep learning", "neural networks"}],
    [base |-> "data science", related |-> {"machine learning", "statistics", "data analysis", "big data", "python", "r"}],
    [base |-> "tensorflow", related |-> {"keras", "deep learning", "machine learning", "python"}],
    [base |-> "pytorch", related |-> {"deep learning", "machine learning", "python"}],
    [base |-> "android", related |-> {"kotlin", "java", "mobile development"}],
    [base |-> "ios", related |-> {"swift", "objective-c", "mobile development"}],
    [base |-> "react native", related |-> {"react", "mobile development", "javascript", "typescript"}],
    [base |-> "flutter", related |-> {"dart", "mobile development"}],
    [base |-> "git", related |-> {"github", "gitlab", "bitbucket", "version control"}],
    [base |-> "agile", related |-> {"scrum", "kanban", "jira", "project management"}],
    [base |-> "rest api", related |-> {"api", "restful", "web services"}],
    [base |-> "graphql", related |-> {"api", "apollo"}]
>>

(***************************************************************************)
(* A function's optional result is a set: {} is None, {v} is the value v.  *)
(***************************************************************************)
None == {}
Some(v) == {v}
ValueOf(opt) == CHOOSE v \in opt : TRUE

\* The loop body of check_skills_relations at entry i of the table
RelationAt(i, norm_skill1, norm_skill2) ==
    LET base_skill == TECH_SKILLS_RELATIONS[i].base
        related_skills == TECH_SKILLS_RELATIONS[i].related
    IN  IF norm_skill1 = base_skill /\ norm_skill2 \in related_skills
            THEN Some(BASE_RELATION_SCORE)
        ELSE IF norm_skill2 = base_skill /\ norm_skill1 \in related_skills
            THEN Some(BASE_RELATION_SCORE)
        ELSE IF norm_skill1 \in related_skills /\ norm_skill2 \in related_skills
            THEN Some(SAME_BASE_SCORE)
        ELSE None

RECURSIVE RelationFrom(_, _, _)
RelationFrom(i, norm_skill1, norm_skill2) ==
    IF i > Len(TECH_SKILLS_RELATIONS) THEN None
    ELSE IF RelationAt(i, norm_skill1, norm_skill2) # None
        THEN RelationAt(i, norm_skill1, norm_skill2)
    ELSE RelationFrom(i + 1, norm_skill1, norm_skill2)

check_skills_relations(skill1, skill2) ==
    LET norm_skill1 == normalize_text(skill1)
        norm_skill2 == normalize_text(skill2)
    IN  IF norm_skill1 = norm_skill2 THEN Some(EXACT_SCORE)
        ELSE RelationFrom(1, norm_skill1, norm_skill2)

(***************************************************************************)
(* The oracle's response text and the score read from it.                  *)
(***************************************************************************)
IsDigit(c) == IsIn(c, Digits)
DigitValue(c) == IndexIn(c, Digits) - 1

\* the length of the longest run of digits of s that starts at position i
RECURSIVE DigitRun(_, _)
DigitRun(s, i) ==
    IF i <= Len(s) /\ IsDigit(CharAt(s, i)) THEN 1 + DigitRun(s, i + 1) ELSE 0

RECURSIVE StrToNat(_)
StrToNat(s) ==
    IF s = "" THEN 0 ELSE 10 * StrToNat(SubSeq(s, 1, Len(s) - 1)) + DigitValue(CharAt(s, Len(s)))

\* re.search(r"(\d+\.\d+|\d+)", score_text): the leftmost match starts at the first
\* digit; \d+\.\d+ is tried first, then \d+.  The match is [int, frac] as strings.
FirstDigit(s) == CHOOSE i \in 1..Len(s) : IsDigit(CharAt(s, i)) /\ \A j \in 1..(i - 1) : ~IsDigit(CharAt(s, j))

score_match(score_text) ==
    IF \A i \in 1..Len(score_text) : ~IsDigit(CharAt(score_text, i)) THEN None
    ELSE LET i == FirstDigit(score_text)
             n == DigitRun(score_text, i)
             dot == i + n
             m == DigitRun(score_text, dot + 1)
         IN  IF dot <= Len(score_text) /\ CharAt(score_text, dot) = "." /\ m > 0
             THEN Some([int |-> SubSeq(score_text, i, dot - 1),
                        frac |-> SubSeq(score_text, dot + 1, dot + m)])
             ELSE Some([int |-> SubSeq(score_text, i, dot - 1), frac |-> ""])

\* float(...) of the match, in hundredths; the responses carry at most two decimals
FloatOf(match) ==
    LET f == match.frac
    IN  100 * StrToNat(match.int)
        + (IF Len(f) >= 1 THEN 10 * DigitValue(CharAt(f, 1)) ELSE 0)
        + (IF Len(f) >= 2 THEN DigitValue(CharAt(f, 2)) ELSE 0)

\* the score of a response, were a response without a number to count 0.0
response_score_zero_default(content) ==
    LET score_text == strip(content)
    IN  IF score_match(score_text) # None THEN FloatOf(ValueOf(score_match(score_text)))
        ELSE EMPTY_SCORE

\* lines 142-149 of semantic_similarity_chatgpt: the score of a response
response_score(content) ==
    LET score_text == strip(content)
    IN  IF score_match(score_text) # None THEN FloatOf(ValueOf(score_match(score_text)))
        ELSE NEUTRAL_SCORE

(***************************************************************************)
(* Cache keys.                                                             *)
(***************************************************************************)
get_cache_key(cache_type, text1, text2) ==
    cache_type \o ":" \o sorted_texts(text1, text2)[1] \o ":" \o sorted_texts(text1, text2)[2]

(***************************************************************************)
(* Similarity resolution: get_name_similarity, get_hard_skill_similarity   *)
(* (calculate_skill_similarity under lru_cache), get_soft_skill_similarity *)
(* and get_degree_similarity, each run by a caller in steps: the calls to  *)
(* the fast tier, to the durable tier and to the oracle are the points     *)
(* where callers interleave.                                               *)
(***************************************************************************)
Procs == {"t1", "t2"}

\* cache_type of the four functions
CacheTypes == {"name", "hard_skills", "soft_skills", "degree_domain"}

\* operand pairs handed to the functions: equal after normalization, unrelated
\* (in both orders), base and related skill, one operand empty, identical
SimPairs == {<<"go", "Go. ">>, <<"Go. ", "go">>, <<"go", "r">>, <<"r", "go">>,
             <<"Go. ", "r">>, <<"r", "Go. ">>, <<"go", "gin">>, <<"", "go">>, <<"go", "">>}

\* what client.chat.completions.create does: raise, or answer with a text
OracleError == "<raise>"
OracleResponses == {"Score: 0.3.", "5", "n/a"}

\* MAX_CACHE_ENTRIES values the environment sets
MaxEntriesChoices == {1, 2}

\* The operands of the model, and the string functions tabulated over them
\* (each table is the function above it, evaluated once).
SimTexts == {p[1] : p \in SimPairs} \cup {p[2] : p \in SimPairs}
NormalizedOf == [text \in SimTexts |-> normalize_text(text)]
SortedOf == [text1 \in SimTexts, text2 \in SimTexts |-> sorted_texts(text1, text2)]
CacheKeyOf == [cache_type \in CacheTypes, text1 \in SimTexts, text2 \in SimTexts |->
                  get_cache_key(cache_type, text1, text2)]
RelationOf == [skill1 \in SimTexts, skill2 \in SimTexts |-> check_skills_relations(skill1, skill2)]
ResponseScoreOf == [content \in OracleResponses |-> response_score(content)]

Idle == [pc |-> "idle", kind |-> "", a |-> "", b |-> "", score |-> 0, ret |-> 0,
         raised |-> FALSE, outcome |-> "", read |-> FALSE, wrote |-> FALSE,
         asked |-> FALSE, in_try |-> FALSE, pg_failed |-> FALSE]

Put(f, key, val) == [x \in (DOMAIN f) \cup {key} |-> IF x = key THEN val ELSE f[x]]
Drop(f, keys) == [x \in (DOMAIN f) \ keys |-> f[x]]

\* get_similarity_from_cache: the value it returns in the current state
cache_lookup(cache_type, text1, text2) ==
    IF CacheKeyOf[cache_type, text1, text2] \in DOMAIN redis
        THEN Some(redis[CacheKeyOf[cache_type, text1, text2]])
    ELSE IF SortedOf[text1, text2] \in DOMAIN pg[cache_type]
        THEN Some(pg[cache_type][SortedOf[text1, text2]].score)
    ELSE None

\* get_similarity_from_cache: the durable tier after the call (a row found in
\* PostgreSQL gets timestamp = now; a Redis hit returns before PostgreSQL is read)
pg_after_lookup(cache_type, text1, text2) ==
    IF CacheKeyOf[cache_type, text1, text2] \notin DOMAIN redis
       /\ SortedOf[text1, text2] \in DOMAIN pg[cache_type]
    THEN [pg EXCEPT ![cache_type][SortedOf[text1, text2]].timestamp = now]
    ELSE pg

\* a tenth of MAX_CACHE_ENTRIES rounded up
num_to_delete_rounded_up(max_entries) == (max_entries + 9) \div 10

\* int(MAX_CACHE_ENTRIES * 0.1)
num_to_delete(max_entries) == max_entries \div 10

\* the row sets DELETE ... WHERE id IN (SELECT id ... ORDER BY timestamp ASC LIMIT n)
\* can remove: n rows (all of them if fewer), none newer than a row that stays
OldestSets(tbl, n) ==
    {D \in SUBSET (DOMAIN tbl) :
        /\ Cardinality(D) = (IF n < Cardinality(DOMAIN tbl) THEN n ELSE Cardinality(DOMAIN tbl))
        /\ \A d \in D : \A x \in (DOMAIN tbl) \ D : tbl[d].timestamp <= tbl[x].timestamp}

\* the transaction of save_similarity_to_cache on one table, deleting the rows D
save_table(tbl, D, text1, text2, score) ==
    LET kept == IF Cardinality(DOMAIN tbl) >= max_cache_entries THEN Drop(tbl, D) ELSE tbl
    IN  Put(kept, SortedOf[text1, text2], [score |-> score, timestamp |-> now])

\* the table after a transaction whose DELETE were committed before the failure
failed_save_table_delete_kept(tbl, D) ==
    IF Cardinality(DOMAIN tbl) >= max_cache_entries THEN Drop(tbl, D) ELSE tbl

\* the table after a transaction of save_similarity_to_cache that failed after it
\* had deleted the rows D: get_connection rolls back (lines 94-97)
failed_save_table(tbl, D) == tbl

\* a caller returns ret; lru_cache keeps what calculate_skill_similarity returned,
\* unless the key was added while the function ran (the first result stays)
Returned(t, ret, fields) ==
    /\ thr' = [thr EXCEPT ![t] = [fields EXCEPT !.pc = "done", !.ret = ret]]
    /\ memo' = IF /\ fields.kind = "hard_skills" /\ fields.a # "" /\ fields.b # ""
                  /\ <<fields.a, fields.b>> \notin DOMAIN memo
               THEN Put(memo, <<fields.a, fields.b>>, ret) ELSE memo

\* name1 == name2, without normalize_text
exact_match_raw(text1, text2) == text1 = text2

\* normalize_text(name1) == normalize_text(name2)
exact_match(text1, text2) == NormalizedOf[text1] = NormalizedOf[text2]

\* entry: the empty check, the lru_cache lookup, the exact-match check
Call(t, kind, a, b) ==
    /\ thr[t].pc = "idle"
    /\ calls < MaxCalls
    /\ calls' = calls + 1
    /\ LET me == [Idle EXCEPT !.kind = kind, !.a = a, !.b = b]
       IN  IF a = "" \/ b = ""
               THEN Returned(t, EMPTY_SCORE, me)
           ELSE IF kind = "hard_skills" /\ <<a, b>> \in DOMAIN memo
               THEN Returned(t, memo[<<a, b>>], me)
           ELSE IF exact_match(a, b)
               THEN Returned(t, EXACT_SCORE, me)
           ELSE thr' = [thr EXCEPT ![t] = [me EXCEPT !.pc = "check1"]] /\ UNCHANGED memo
    /\ UNCHANGED <<fnVars, redis, pg, max_cache_entries, now, ticks, weightVars, scoreVars>>

\* the first get_similarity_from_cache (in get_*_similarity, and line 63 of
\* calculate_skill_similarity, followed there by check_skills_relations)
CacheCheck1(t) ==
    LET me == [thr[t] EXCEPT !.read = TRUE]
        cached_score == cache_lookup(me.kind, me.a, me.b)
        relation_score == RelationOf[me.a, me.b]
    IN  /\ thr[t].pc = "check1"
        /\ pg' = pg_after_lookup(me.kind, me.a, me.b)
        /\ IF cached_score # None
               THEN Returned(t, ValueOf(cached_score), me)
           ELSE IF me.kind = "hard_skills" /\ relation_score # None
               THEN /\ thr' = [thr EXCEPT ![t] = [me EXCEPT !.pc = "save_redis",
                                                  !.score = ValueOf(relation_score)]]
                    /\ UNCHANGED memo
           ELSE thr' = [thr EXCEPT ![t] = [me EXCEPT !.pc = "check2"]] /\ UNCHANGED memo
        /\ UNCHANGED <<fnVars, redis, max_cache_entries, now, ticks, calls, weightVars, scoreVars>>

\* get_similarity_from_cache at the head of semantic_similarity_chatgpt
CacheCheck2(t) ==
    LET me == thr[t]
        cached_score == cache_lookup(me.kind, me.a, me.b)
    IN  /\ thr[t].pc = "check2"
        /\ pg' = pg_after_lookup(me.kind, me.a, me.b)
        /\ IF cached_score # None
               THEN Returned(t, ValueOf(cached_score), me)
           ELSE thr' = [thr EXCEPT ![t] = [me EXCEPT !.pc = "oracle"]] /\ UNCHANGED memo
        /\ UNCHANGED <<fnVars, redis, max_cache_entries, now, ticks, calls, weightVars, scoreVars>>

\* client.chat.completions.create and the parse of its answer (lines 132-149);
\* a raise lands in the except clause, which returns 0.5
OracleCall(t, outcome) ==
    LET me == [thr[t] EXCEPT !.asked = TRUE, !.outcome = outcome]
    IN  /\ thr[t].pc = "oracle"
        /\ IF outcome = OracleError
               THEN Returned(t, NEUTRAL_SCORE, me)
           ELSE /\ thr' = [thr EXCEPT ![t] = [me EXCEPT !.pc = "save_redis", !.in_try = TRUE,
                                              !.score = ResponseScoreOf[outcome]]]
                /\ UNCHANGED memo
        /\ UNCHANGED <<fnVars, redis, pg, max_cache_entries, now, ticks, calls, weightVars, scoreVars>>

\* save_similarity_to_cache, lines 279-281: redis_client.set
SaveRedis(t) ==
    LET me == thr[t]
    IN  /\ me.pc = "save_redis"
        /\ redis' = Put(redis, CacheKeyOf[me.kind, me.a, me.b], me.score)
        /\ thr' = [thr EXCEPT ![t] = [me EXCEPT !.pc = "save_pg", !.wrote = TRUE]]
        /\ UNCHANGED <<fnVars, memo, pg, max_cache_entries, now, ticks, calls, weightVars, scoreVars>>

\* save_similarity_to_cache, lines 292-322: the transaction commits
SavePg(t) ==
    LET me == thr[t]
    IN  /\ me.pc = "save_pg"
        /\ \E D \in OldestSets(pg[me.kind], num_to_delete(max_cache_entries)) :
               pg' = [pg EXCEPT ![me.kind] = save_table(pg[me.kind], D, me.a, me.b, me.score)]
        /\ Returned(t, me.score, me)
        /\ UNCHANGED <<fnVars, redis, max_cache_entries, now, ticks, calls, weightVars, scoreVars>>

\* save_similarity_to_cache, lines 292-322: the transaction fails and is rolled
\* back (get_connection, lines 94-97).  Inside semantic_similarity_chatgpt the
\* except clause returns 0.5; from line 71 of calculate_skill_similarity the
\* exception reaches the caller.
SavePgFails(t) ==
    LET me == [thr[t] EXCEPT !.pg_failed = TRUE]
    IN  /\ thr[t].pc = "save_pg"
        /\ \E D \in OldestSets(pg[me.kind], num_to_delete(max_cache_entries)) :
               pg' = [pg EXCEPT ![me.kind] = failed_save_table(pg[me.kind], D)]
        /\ IF me.in_try
               THEN Returned(t, NEUTRAL_SCORE, me)
           ELSE /\ thr' = [thr EXCEPT ![t] = [me EXCEPT !.pc = "done", !.raised = TRUE]]
                /\ UNCHANGED memo
        /\ UNCHANGED <<fnVars, redis, max_cache_entries, now, ticks, calls, weightVars, scoreVars>>

\* the caller takes the result
Return(t) ==
    /\ thr[t].pc = "done"
    /\ thr' = [thr EXCEPT ![t] = Idle]
    /\ UNCHANGED <<fnVars, memo, redis, pg, max_cache_entries, now, ticks, calls, weightVars, scoreVars>>

\* a Redis key set with ex=CACHE_EXPIRY_SECONDS expires
RedisExpire(key) ==
    /\ key \in DOMAIN redis
    /\ redis' = Drop(redis, {key})
    /\ UNCHANGED <<fnVars, memo, pg, max_cache_entries, now, ticks, thr, calls, weightVars, scoreVars>>

\* time.time() advances by step seconds
Tick(step) ==
    /\ ticks < MaxTicks
    /\ ticks' = ticks + 1
    /\ now' = now + step
    /\ UNCHANGED <<fnVars, simVars, weightVars, scoreVars>>

EmptyMap == [x \in {} |-> 0]

(***************************************************************************)
(* adaptive_weights (scoring.py).  A weight is a fraction num / den of a   *)
(* thousandth: the redistribution multiplies by a ratio whose denominator  *)
(* is adjustable_sum, so the returned weights are kept as numerators over  *)
(* that one denominator and no rounding enters the sum.                    *)
(***************************************************************************)
BASE_WEIGHTS == [hard_skills |-> 400, soft_skills |-> 100, experience |-> 200, degree |-> 150,
                 salary |-> 25, remote_work |-> 25, languages |-> 100]

FIXED_FIELDS == {"salary", "remote_work"}

\* sum(w.values())
SumValues(w) ==
    w["hard_skills"] + w["soft_skills"] + w["experience"] + w["degree"]
        + w["salary"] + w["remote_work"] + w["languages"]

\* A job as adaptive_weights reads it: hard_skills, required_experiences,
\* required_degree, required_languages and required_soft_skills are TRUE when the
\* value is truthy; salary is None or Some(amount); offers_remote is None when
\* the key is missing.
fields_absent(j) ==
    (IF ~j.hard_skills THEN {"hard_skills"} ELSE {})
        \cup (IF ~j.required_experiences THEN {"experience"} ELSE {})
        \cup (IF ~j.required_degree THEN {"degree"} ELSE {})
        \cup (IF j.salary = None THEN {"salary"} ELSE {})
        \cup (IF j.offers_remote = None THEN {"remote_work"} ELSE {})
        \cup (IF ~j.required_languages THEN {"languages"} ELSE {})
        \cup (IF ~j.required_soft_skills THEN {"soft_skills"} ELSE {})

\* new_weights after the absent fields are set to 0.0
zeroed_weights(j) ==
    [field \in DOMAIN BASE_WEIGHTS |-> IF field \in fields_absent(j) THEN 0 ELSE BASE_WEIGHTS[field]]

fixed_sum(j) ==
    (IF "salary" \notin fields_absent(j) THEN zeroed_weights(j)["salary"] ELSE 0)
        + (IF "remote_work" \notin fields_absent(j) THEN zeroed_weights(j)["remote_work"] ELSE 0)

adjustable_fields(j) == (DOMAIN BASE_WEIGHTS \ FIXED_FIELDS) \ fields_absent(j)

adjustable_sum(j) ==
    SumValues([field \in DOMAIN BASE_WEIGHTS |->
                  IF field \in adjustable_fields(j) THEN zeroed_weights(j)[field] ELSE 0])

\* the mass of the absent adjustable fields only
mass_of_absent_adjustable(j) ==
    SumValues([field \in DOMAIN BASE_WEIGHTS |->
                  IF field \in fields_absent(j) \ FIXED_FIELDS THEN BASE_WEIGHTS[field] ELSE 0])

\* sum_all - sum_current
mass_to_redistribute(j) == SumValues(BASE_WEIGHTS) - (fixed_sum(j) + adjustable_sum(j))

\* the returned weights: field -> num, all over den
adaptive_weights(j) ==
    IF adjustable_sum(j) > 0
    THEN [num |-> [field \in DOMAIN BASE_WEIGHTS |->
                      IF field \in adjustable_fields(j)
                      THEN zeroed_weights(j)[field] * (adjustable_sum(j) + mass_to_redistribute(j))
                      ELSE zeroed_weights(j)[field] * adjustable_sum(j)],
          den |-> adjustable_sum(j)]
    ELSE [num |-> zeroed_weights(j), den |-> 1]

\* the jobs handed to the allocator: every combination of present and absent fields
WeightJobs ==
    [id : {"j1"}, tags : {{}},
     hard_skills : BOOLEAN, required_experiences : BOOLEAN, required_degree : BOOLEAN,
     salary : {None, Some(50)}, offers_remote : {None, Some(TRUE)},
     required_languages : BOOLEAN, required_soft_skills : BOOLEAN]

FullJob ==
    [id |-> "j1", tags |-> {},
     hard_skills |-> TRUE, required_experiences |-> TRUE, required_degree |-> TRUE,
     salary |-> Some(50), offers_remote |-> Some(TRUE),
     required_languages |-> TRUE, required_soft_skills |-> TRUE]

\* adaptive_weights(job) is called
Allocate ==
    /\ weights = EmptyMap
    /\ weights' = adaptive_weights(job)
    /\ UNCHANGED <<fnVars, job, simVars, scoreVars, now, ticks>>

\* the caller drops the weights and takes another job
NextJob(j) ==
    /\ weights # EmptyMap
    /\ job' = j
    /\ weights' = EmptyMap
    /\ UNCHANGED <<fnVars, simVars, scoreVars, now, ticks>>

(***************************************************************************)
(* calculate_match_score (scoring.py) over the table match_results         *)
(* (database.py).  One caller; the five scorers that compare texts are     *)
(* abstract: each returns a score or raises.                               *)
(***************************************************************************)
TextScorers == {"experience", "degree", "hard_skills", "soft_skills", "languages"}

\* what a text scorer's future yields: Some(score), or None when it raised
ScorerOutcomes == {Some(100), None}

ScoreJobs ==
    {[FullJob EXCEPT !.tags = {"Python", "go", "SQL"}],
     [FullJob EXCEPT !.tags = {"Python"}, !.required_experiences = FALSE, !.required_degree = FALSE,
                     !.offers_remote = None, !.required_languages = FALSE,
                     !.required_soft_skills = FALSE],
     [FullJob EXCEPT !.id = "", !.tags = {"Python"}]}

\* candidates: min_salary is 0 and wants_remote is None when the key is missing
Candidates ==
    {[id |-> "c1", tags |-> {"python", "GO"}, min_salary |-> 40, wants_remote |-> Some(TRUE)],
     [id |-> "c1", tags |-> {"rust"}, min_salary |-> 60, wants_remote |-> None],
     [id |-> "", tags |-> {"rust"}, min_salary |-> 0, wants_remote |-> None],
     [id |-> "c2", tags |-> {"python", "Go", "sql", "rust"}, min_salary |-> 0,
      wants_remote |-> Some(TRUE)]}

TickSteps == {1, DAY_SECONDS - 1}

ScIdle ==
    [pc |-> "idle", candidate |-> {}, activate_tags |-> FALSE, save_result |-> FALSE,
     lookup |-> "", seen |-> None, common_tags |-> {}, tag_bonus |-> 0,
     futures |-> EmptyMap, results |-> EmptyMap, details |-> EmptyMap,
     task |-> EmptyMap, collected_upto |-> 0, max_workers |-> 0,
     result |-> None, raised |-> FALSE, allocated |-> FALSE, scorers |-> {}, wrote |-> FALSE]

\* salary_score
salary_score(candidate_min_salary, job_salary) ==
    IF candidate_min_salary = 0 \/ job_salary = 0 THEN 100
    ELSE IF job_salary >= candidate_min_salary THEN 100 ELSE 0

\* remote_work_score; None is Python's None
remote_work_score(candidate_wants_remote, job_offers_remote) ==
    IF candidate_wants_remote = None \/ job_offers_remote = None THEN 100
    ELSE IF candidate_wants_remote = job_offers_remote THEN 100 ELSE 0

\* dict.get(key, default) on a value kept as None / Some(v)
GetOr(opt, default) == IF opt = None THEN default ELSE ValueOf(opt)

\* set(tag.lower() for tag in tags)
lower_tags(tags) == {lower(tag) : tag \in tags}

\* a bonus of 0.05 from two common tags on, never 0.10
tag_bonus_flat(num_common_tags) ==
    IF num_common_tags >= 2 THEN 5 ELSE 0

\* lines 525-530: tag_bonus in hundredths
tag_bonus_of(num_common_tags) ==
    IF num_common_tags = 2 THEN 5
    ELSE IF num_common_tags >= 3 THEN 10
    ELSE 0

\* the result of the tag short-circuit, lines 500-515
no_common_tag_result ==
    [total_score |-> [weighted |-> 0, den |-> 1, tag_bonus |-> 0],
     reason |-> "Aucun tag commun",
     scores |-> [category \in DOMAIN BASE_WEIGHTS |-> 0],
     tag_bonus |-> 0, common_tags |-> {}]

\* the result of lines 600-645: total_score is (weighted / den) * (1 + tag_bonus),
\* weighted / den in units of 0.00001
match_result(w, results, details, tag_bonus, common_tags) ==
    [total_score |-> [weighted |-> SumValues([category \in DOMAIN BASE_WEIGHTS |->
                                                 w.num[category] * results[category]]),
                      den |-> w.den, tag_bonus |-> tag_bonus],
     reason |-> "",
     scores |-> results,
     details |-> details,
     weights |-> w,
     tag_bonus |-> tag_bonus, common_tags |-> common_tags]

\* get_match_result: the row of (job_id, candidate_id), None when there is none
get_match_result(job_id, candidate_id) ==
    IF \E row \in match_results : row.job_id = job_id /\ row.candidate_id = candidate_id
    THEN Some(CHOOSE row \in match_results : row.job_id = job_id /\ row.candidate_id = candidate_id)
    ELSE None

\* the row save_match_result writes; total_score is a REAL column, kept here as
\* the exact value handed in
match_row(job_id, candidate_id, total_score, details, timestamp) ==
    [job_id |-> job_id, candidate_id |-> candidate_id, total_score |-> total_score,
     details |-> details, timestamp |-> timestamp]

\* a plain INSERT, without the ON CONFLICT clause and the UNIQUE constraint
insert_match_result(job_id, candidate_id, total_score, details, timestamp) ==
    match_results \cup {match_row(job_id, candidate_id, total_score, details, timestamp)}

\* the statement of save_match_result:
\* INSERT ... ON CONFLICT (job_id, candidate_id) DO UPDATE SET total_score, details, timestamp
upsert_match_result(job_id, candidate_id, total_score, details, timestamp) ==
    {row \in match_results : ~(row.job_id = job_id /\ row.candidate_id = candidate_id)}
        \cup {match_row(job_id, candidate_id, total_score, details, timestamp)}

\* save_match_result run in one step: now = int(time.time()), then the statement
save_match_result(job_id, candidate_id, total_score, details) ==
    upsert_match_result(job_id, candidate_id, total_score, details, now)

\* the test on the candidate's id alone
has_candidate_id(candidate_id, job_id) == candidate_id # ""

\* lines 479 and 516, 649: candidate_id and job_id, both present and not empty
has_ids(candidate_id, job_id) == candidate_id # "" /\ job_id # ""

\* time.time() - cached_result['timestamp'] < 86400
is_recent(row) == now - row.timestamp < DAY_SECONDS

\* calculate_match_score, lines 475-534: the lookup, the tag check and the weights.
\* details is a JSONB column (database.py line 161) and get_match_result hands the
\* column to json.loads (line 393): decoded is TRUE when the driver returns the
\* column already decoded, and json.loads then raises TypeError.
ScoreCallBody(candidate, activate_tags, save_result, decoded) ==
    LET ids == has_ids(candidate.id, job.id)
        cached_result == IF ids THEN get_match_result(job.id, candidate.id) ELSE None
        lookup == IF ~ids THEN "skipped"
                  ELSE IF cached_result = None THEN "absent"
                  ELSE IF is_recent(ValueOf(cached_result)) THEN "recent" ELSE "old"
        common_tags == IF activate_tags THEN lower_tags(candidate.tags) \cap lower_tags(job.tags) ELSE {}
        me == [ScIdle EXCEPT !.candidate = candidate, !.activate_tags = activate_tags,
                             !.save_result = save_result, !.lookup = lookup,
                             !.seen = cached_result]
    IN  /\ sc.pc = "idle"
        /\ score_calls < MaxScoreCalls
        /\ score_calls' = score_calls + 1
        /\ IF cached_result # None /\ decoded
           THEN /\ sc' = [me EXCEPT !.pc = "done", !.raised = TRUE]
                /\ UNCHANGED <<match_results, weights>>
           ELSE IF lookup = "recent"
           THEN /\ sc' = [me EXCEPT !.pc = "done",
                                    !.result = Some(ValueOf(cached_result).details)]
                /\ UNCHANGED <<match_results, weights>>
           ELSE IF activate_tags /\ Cardinality(common_tags) = 0
           THEN /\ sc' = [me EXCEPT !.pc = "done", !.result = Some(no_common_tag_result),
                                    !.wrote = save_result /\ ids]
                /\ match_results' = IF save_result /\ ids
                                    THEN save_match_result(job.id, candidate.id,
                                                           no_common_tag_result.total_score,
                                                           no_common_tag_result)
                                    ELSE match_results
                /\ UNCHANGED weights
           ELSE /\ sc' = [me EXCEPT !.pc = "tasks", !.common_tags = common_tags,
                                    !.tag_bonus = tag_bonus_of(Cardinality(common_tags)),
                                    !.allocated = TRUE]
                /\ weights' = adaptive_weights(job)
                /\ UNCHANGED match_results
        /\ UNCHANGED <<job, simVars>>

\* calculate_match_score is entered by a caller of its own
ScoreCall(candidate, activate_tags, save_result, decoded) ==
    /\ ScoreCallBody(candidate, activate_tags, save_result, decoded)
    /\ UNCHANGED <<fnVars, now, ticks>>

\* lines 585-590: the score collected from a future that raised, were it 0.5
collected_score_neutral(future) == GetOr(future, NEUTRAL_SCORE)

\* lines 579-590: the score collected from a future; a task that raised counts 0.0
collected_score(future) == GetOr(future, 0)

\* lines 537-590: the seven tasks run and their results are collected.  outcomes
\* is what the text scorers' futures yield; raising holds those of salary_score
\* and remote_work_score that raise (on operands they cannot compare).
RunTasksBody(outcomes, raising) ==
    LET futures == [category \in DOMAIN BASE_WEIGHTS |->
                       IF category \in TextScorers THEN outcomes[category]
                       ELSE IF category \in raising THEN None
                       ELSE IF category = "salary"
                           THEN Some(salary_score(sc.candidate.min_salary, GetOr(job.salary, 0)))
                       ELSE Some(remote_work_score(Some(GetOr(sc.candidate.wants_remote, FALSE)),
                                                   Some(GetOr(job.offers_remote, FALSE))))]
    IN  /\ sc.pc = "tasks"
        /\ sc' = [sc EXCEPT
                    !.pc = "collected",
                    !.scorers = DOMAIN BASE_WEIGHTS,
                    !.futures = futures,
                    !.results = [category \in DOMAIN BASE_WEIGHTS |-> collected_score(futures[category])],
                    !.details = [category \in TextScorers |->
                                    IF futures[category] = None THEN "[]" ELSE "computed"]]
        /\ UNCHANGED <<match_results, score_calls, weightVars, simVars>>

RunTasks(outcomes, raising) ==
    /\ RunTasksBody(outcomes, raising)
    /\ UNCHANGED <<fnVars, now, ticks>>

\* lines 600-652: the total, the result, the save and the return
FinishBody ==
    LET result == match_result(weights, sc.results, sc.details, sc.tag_bonus, sc.common_tags)
        saves == sc.save_result /\ has_ids(sc.candidate.id, job.id)
    IN  /\ sc.pc = "collected"
        /\ sc' = [sc EXCEPT !.pc = "done", !.result = Some(result), !.wrote = saves]
        /\ match_results' = IF saves THEN save_match_result(job.id, sc.candidate.id,
                                                             result.total_score, result)
                            ELSE match_results
        /\ UNCHANGED <<score_calls, weightVars, simVars>>

Finish ==
    /\ FinishBody
    /\ UNCHANGED <<fnVars, now, ticks>>

\* lines 648-650: save_match_result raises (get_connection rolls back and
\* re-raises), and the exception leaves calculate_match_score
FinishSaveFails ==
    /\ sc.pc = "collected"
    /\ sc.save_result /\ has_ids(sc.candidate.id, job.id)
    /\ sc' = [sc EXCEPT !.pc = "done", !.raised = TRUE]
    /\ UNCHANGED <<fnVars, match_results, score_calls, weightVars, simVars, now, ticks>>

\* the caller takes the result
ScoreReturn ==
    /\ sc.pc = "done"
    /\ sc' = ScIdle
    /\ UNCHANGED <<fnVars, match_results, score_calls, weightVars, simVars, now, ticks>>

(***************************************************************************)
(* compare_hard_skills (scoring.py), called on its own.  What                *)
(* get_hard_skill_similarity returns for each (candidate skill, job skill)  *)
(* during the call is given as the table sim.                               *)
(***************************************************************************)
THRESHOLD_OBLIGATORY == 80

\* Seq of the values of a sequence summed
RECURSIVE SumSeq(_)
SumSeq(q) == IF q = <<>> THEN 0 ELSE Head(q) + SumSeq(Tail(q))

\* lines 133-137: the best score over candidate_skills, from max_score = 0.0
RECURSIVE BestMatch(_, _, _, _)
BestMatch(candidate_skills, job_skill, sim, acc) ==
    IF candidate_skills = <<>> THEN acc
    ELSE LET score == sim[<<Head(candidate_skills), job_skill>>]
         IN  BestMatch(Tail(candidate_skills), job_skill, sim,
                       IF score > acc.max_score
                       THEN [max_score |-> score, best_candidate_skill |-> Some(Head(candidate_skills))]
                       ELSE acc)

\* max_score <= THRESHOLD_OBLIGATORY in place of <
obligatory_final_score_inclusive(max_score) == IF max_score <= THRESHOLD_OBLIGATORY THEN 0 ELSE max_score

\* lines 141-145: final_score of an 'obligatoire' skill
obligatory_final_score(max_score) == IF max_score < THRESHOLD_OBLIGATORY THEN 0 ELSE max_score

\* lines 126-156: one turn of the loop over required_skills.  final_score is None
\* while the local is unbound; reading it then raises UnboundLocalError.
HardSkillStep(acc, job_skill_info, candidate_skills, sim) ==
    LET job_skill == job_skill_info.skill
        category == lower(job_skill_info.category)
        best == BestMatch(candidate_skills, job_skill, sim,
                          [max_score |-> 0, best_candidate_skill |-> None])
        max_score == best.max_score
        final_score == IF category = "obligatoire" THEN Some(obligatory_final_score(max_score))
                       ELSE acc.final_score
        best_candidate_skill ==
            IF category = "obligatoire" /\ max_score < THRESHOLD_OBLIGATORY THEN None
            ELSE best.best_candidate_skill
    IN  IF category # "recommande" /\ final_score = None
        THEN [acc EXCEPT !.raised = TRUE]
        ELSE [raised |-> FALSE,
              final_score |-> final_score,
              obligatory_scores |-> IF category = "obligatoire"
                                    THEN Append(acc.obligatory_scores, ValueOf(final_score))
                                    ELSE acc.obligatory_scores,
              recommended_scores |-> IF category = "recommande"
                                     THEN Append(acc.recommended_scores, max_score)
                                     ELSE acc.recommended_scores,
              detailed_scores |-> Put(acc.detailed_scores, job_skill,
                                      [candidate_skill |-> best_candidate_skill,
                                       score |-> IF category = "recommande" THEN max_score
                                                 ELSE ValueOf(final_score),
                                       category |-> category])]

RECURSIVE HardSkillLoop(_, _, _, _)
HardSkillLoop(acc, required_skills, candidate_skills, sim) ==
    IF required_skills = <<>> \/ acc.raised THEN acc
    ELSE HardSkillLoop(HardSkillStep(acc, Head(required_skills), candidate_skills, sim),
                       Tail(required_skills), candidate_skills, sim)

\* lines 159-169: final_score as the fraction num / den of a hundredth
\* (np.mean is sum / length; 0.7 and 0.3 are 7/10 and 3/10)
weighted_final_score(obligatory_scores, recommended_scores) ==
    IF obligatory_scores # <<>> /\ recommended_scores # <<>>
    THEN [num |-> 7 * SumSeq(obligatory_scores) * Len(recommended_scores)
                  + 3 * SumSeq(recommended_scores) * Len(obligatory_scores),
          den |-> 10 * Len(obligatory_scores) * Len(recommended_scores)]
    ELSE IF obligatory_scores # <<>>
    THEN [num |-> SumSeq(obligatory_scores), den |-> Len(obligatory_scores)]
    ELSE IF recommended_scores # <<>>
    THEN [num |-> SumSeq(recommended_scores), den |-> Len(recommended_scores)]
    ELSE [num |-> 0, den |-> 1]

\* compare_hard_skills: what it returns, with the two score lists it averaged
compare_hard_skills(candidate_skills, required_skills, sim) ==
    IF candidate_skills = <<>> \/ required_skills = <<>>
    THEN [raised |-> FALSE, final_score |-> [num |-> 0, den |-> 1], detailed_scores |-> EmptyMap,
          obligatory_scores |-> <<>>, recommended_scores |-> <<>>]
    ELSE LET acc == HardSkillLoop([raised |-> FALSE, final_score |-> None,
                                   obligatory_scores |-> <<>>, recommended_scores |-> <<>>,
                                   detailed_scores |-> EmptyMap],
                                  required_skills, candidate_skills, sim)
         IN  IF acc.raised
             THEN [raised |-> TRUE, final_score |-> [num |-> 0, den |-> 1],
                   detailed_scores |-> EmptyMap,
                   obligatory_scores |-> <<>>, recommended_scores |-> <<>>]
             ELSE [raised |-> FALSE,
                   final_score |-> weighted_final_score(acc.obligatory_scores, acc.recommended_scores),
                   detailed_scores |-> acc.detailed_scores,
                   obligatory_scores |-> acc.obligatory_scores,
                   recommended_scores |-> acc.recommended_scores]

\* The category 'recommandé' is written "recommande" in the model's values: the
\* model checker's state queue keeps ASCII characters only.
CandidateSkillLists == {<<>>, <<"c1">>, <<"c1", "c2">>}
SkillCategories == {"Obligatoire", "recommande", "optionnel"}
RequiredSkillLists ==
    {<<>>}
        \cup {<<[skill |-> "j1", category |-> c1]>> : c1 \in SkillCategories}
        \cup {<<[skill |-> "j1", category |-> c1], [skill |-> "j2", category |-> c2]>> :
                 c1 \in SkillCategories, c2 \in SkillCategories}
SkillScores == {0, 79, 80, 100}
SkillSimilarities == [{"c1", "c2"} \X {"j1", "j2"} -> SkillScores]

HardSkillArgs ==
    [candidate_skills : CandidateSkillLists, required_skills : RequiredSkillLists,
     sim : SkillSimilarities]

\* compare_hard_skills(candidate_skills, required_skills) is called
CompareHardSkills ==
    /\ call_args # None /\ call_result = None
    /\ call_result' = Some(compare_hard_skills(ValueOf(call_args).candidate_skills,
                                               ValueOf(call_args).required_skills,
                                               ValueOf(call_args).sim))
    /\ UNCHANGED <<call_args, simVars, weightVars, scoreVars, now, ticks>>

InitSim ==
    /\ memo = EmptyMap
    /\ redis = EmptyMap
    /\ pg = [k \in CacheTypes |-> EmptyMap]
    /\ max_cache_entries \in MaxEntriesChoices
    /\ thr = [t \in Procs |-> Idle]
    /\ calls = 0

InitRest ==
    /\ now = 0
    /\ ticks = 0
    /\ job = FullJob
    /\ weights = EmptyMap
    /\ match_results = {}
    /\ sc = ScIdle
    /\ score_calls = 0
    /\ call_args = None /\ call_result = None

Init == InitSim /\ InitRest

\* The similarity functions under two concurrent callers.  The clock stands
\* still: with MAX_CACHE_ENTRIES below 10 no row is ever deleted by age.
Next ==
    \/ \E t \in Procs, kind \in CacheTypes, p \in SimPairs : Call(t, kind, p[1], p[2])
    \/ \E t \in Procs : CacheCheck1(t)
    \/ \E t \in Procs : CacheCheck2(t)
    \/ \E t \in Procs, outcome \in OracleResponses \cup {OracleError} : OracleCall(t, outcome)
    \/ \E t \in Procs : SaveRedis(t)
    \/ \E t \in Procs : SavePg(t)
    \/ \E t \in Procs : Return(t)
    \/ \E key \in DOMAIN redis : RedisExpire(key)

Spec == Init /\ [][Next]_vars

\* The allocator alone, over every job.
InitWeights ==
    /\ InitSim
    /\ now = 0 /\ ticks = 0
    /\ match_results = {} /\ sc = ScIdle /\ score_calls = 0
    /\ job \in WeightJobs
    /\ weights = EmptyMap
    /\ call_args = None /\ call_result = None

NextWeights == Allocate \/ \E j \in WeightJobs : NextJob(j)

SpecWeights == InitWeights /\ [][NextWeights]_vars

\* The orchestrator alone, with the clock.
InitScore ==
    /\ memo = EmptyMap /\ redis = EmptyMap /\ pg = [k \in CacheTypes |-> EmptyMap]
    /\ max_cache_entries = 1
    /\ thr = [t \in Procs |-> Idle]
    /\ calls = 0
    /\ now = 0 /\ ticks = 0
    /\ match_results = {} /\ sc = ScIdle /\ score_calls = 0
    /\ job \in ScoreJobs
    /\ weights = EmptyMap
    /\ call_args = None /\ call_result = None

\* the outcomes of the text scorers followed across calls and clock steps
SomeOutcomes ==
    {[category \in TextScorers |-> Some(100)],
     [category \in TextScorers |-> IF category = "hard_skills" THEN None ELSE Some(100)]}

NextScore ==
    \/ \E candidate \in Candidates, activate_tags \in BOOLEAN, save_result \in BOOLEAN,
          decoded \in BOOLEAN : ScoreCall(candidate, activate_tags, save_result, decoded)
    \/ \E outcomes \in SomeOutcomes, raising \in {{}, {"salary"}} : RunTasks(outcomes, raising)
    \/ Finish
    \/ ScoreReturn
    \/ \E step \in TickSteps : Tick(step)

SpecScore == InitScore /\ [][NextScore]_vars

\* compare_hard_skills alone, over every argument.
InitHardSkills ==
    /\ InitSim /\ max_cache_entries = 1
    /\ now = 0 /\ ticks = 0
    /\ match_results = {} /\ sc = ScIdle /\ score_calls = 0
    /\ job = FullJob /\ weights = EmptyMap
    /\ call_args \in {Some(a) : a \in HardSkillArgs}
    /\ call_result = None

NextHardSkills == CompareHardSkills

SpecHardSkills == InitHardSkills /\ [][NextHardSkills]_vars

\* One call of calculate_match_score, on an empty table or on one that holds
\* the row an earlier call stored for ("j1", "c1").
StoredBefore ==
    {{},
     {[job_id |-> "j1", candidate_id |-> "c1", total_score |-> no_common_tag_result.total_score,
       details |-> no_common_tag_result, timestamp |-> 0]}}

InitScoreOnce ==
    /\ memo = EmptyMap /\ redis = EmptyMap /\ pg = [k \in CacheTypes |-> EmptyMap]
    /\ max_cache_entries = 1
    /\ thr = [t \in Procs |-> Idle]
    /\ calls = 0
    /\ now \in {0, DAY_SECONDS} /\ ticks = 0
    /\ match_results \in StoredBefore /\ sc = ScIdle /\ score_calls = 0
    /\ job \in ScoreJobs
    /\ weights = EmptyMap
    /\ call_args = None /\ call_result = None

NextScoreOnce ==
    \/ \E candidate \in Candidates, activate_tags \in BOOLEAN, save_result \in BOOLEAN,
          decoded \in BOOLEAN :
              score_calls = 0 /\ ScoreCall(candidate, activate_tags, save_result, decoded)
    \/ \E outcomes \in [TextScorers -> ScorerOutcomes], raising \in SUBSET FIXED_FIELDS :
          RunTasks(outcomes, raising)
    \/ Finish
    \/ ScoreReturn

SpecScoreOnce == InitScoreOnce /\ [][NextScoreOnce]_vars

\* The same, with a durable store whose writes can fail.
NextFaults ==
    \/ Next
    \/ \E t \in Procs : SavePgFails(t)

SpecFaults == Init /\ [][NextFaults]_vars

(***************************************************************************)
(* Properties of similarity resolution.                                    *)
(***************************************************************************)
\* What a call of the function of cache_type kind on (a, b) returns from the
\* current state when it does not reach the oracle; None when it would.
Peek(kind, a, b) ==
    IF a = "" \/ b = "" THEN Some(EMPTY_SCORE)
    ELSE IF kind = "hard_skills" /\ <<a, b>> \in DOMAIN memo THEN Some(memo[<<a, b>>])
    ELSE IF exact_match(a, b) THEN Some(EXACT_SCORE)
    ELSE IF cache_lookup(kind, a, b) # None THEN cache_lookup(kind, a, b)
    ELSE IF kind = "hard_skills" THEN RelationOf[a, b]
    ELSE None

Completes(t) == thr[t].pc # "done" /\ thr'[t].pc = "done"

\* C1: symmetry.  Whenever both resolve(kind, a, b) and resolve(kind, b, a) are
\* answered without the oracle, they return the same score.
C1_Symmetry ==
    \A kind \in CacheTypes : \A p \in SimPairs :
        (Peek(kind, p[1], p[2]) # None /\ Peek(kind, p[2], p[1]) # None)
            => Peek(kind, p[1], p[2]) = Peek(kind, p[2], p[1])

\* C2: idempotence after caching.  When the first call ever made returns after
\* asking the oracle, the same call made next returns the same score without the
\* oracle, whatever the oracle did.
C2_IdempotentAfterCaching ==
    [][\A t \in Procs : \A kind \in CacheTypes : \A p \in SimPairs :
          (/\ calls = 1 /\ Completes(t) /\ thr'[t].asked /\ ~thr'[t].raised
           /\ thr'[t].kind = kind /\ thr'[t].a = p[1] /\ thr'[t].b = p[2])
          => Peek(kind, p[1], p[2])' = Some(thr'[t].ret)]_vars

\* C3: determinism until eviction.  While the durable row of a (kind, pair)
\* stays in its table, the score resolve returns for the pair does not change.
C3_DeterministicUntilEvicted ==
    [][\A kind \in CacheTypes : \A p \in SimPairs :
          (SortedOf[p[1], p[2]] \in DOMAIN pg[kind] /\ SortedOf[p[1], p[2]] \in DOMAIN pg'[kind])
              => Peek(kind, p[1], p[2])' = Peek(kind, p[1], p[2])]_vars

\* C4: exact-match shortcut.  A call on two non-empty texts with equal normalized
\* forms returns 1.0, reads and writes neither cache tier and asks no oracle.
C4_ExactMatchShortcut ==
    \A t \in Procs :
        (/\ thr[t].pc = "done"
         /\ thr[t].a # "" /\ thr[t].b # ""
         /\ NormalizedOf[thr[t].a] = NormalizedOf[thr[t].b])
        => (/\ thr[t].ret = EXACT_SCORE
            /\ ~thr[t].raised
            /\ ~thr[t].read /\ ~thr[t].wrote /\ ~thr[t].asked)

C4_Witness ==
    \E t \in Procs :
        /\ thr[t].pc = "done" /\ thr[t].a = "Go. " /\ thr[t].b = "go"
        /\ thr[t].kind = "hard_skills" /\ thr[t].ret = EXACT_SCORE
        /\ ~thr[t].read /\ ~thr[t].wrote /\ ~thr[t].asked

\* C5: score range.  Every returned and every stored score lies in [0, 1].
C5_ScoreRange ==
    /\ \A t \in Procs : (thr[t].pc = "done" /\ ~thr[t].raised) => thr[t].ret \in 0..100
    /\ \A key \in DOMAIN redis : redis[key] \in 0..100
    /\ \A kind \in CacheTypes : \A k \in DOMAIN pg[kind] : pg[kind][k].score \in 0..100

\* C7: capacity.  No durable table holds more rows than MAX_CACHE_ENTRIES.
C7_CapacityBound ==
    \A kind \in CacheTypes : Cardinality(DOMAIN pg[kind]) <= max_cache_entries

NoNumber(content) == content \in OracleResponses /\ score_match(strip(content)) = None

\* C8: oracle failure never propagates.  A call whose oracle raised or answered
\* without a number returns 0.5 and raises nothing.
C8_OracleFailureNeutral ==
    \A t \in Procs :
        (/\ thr[t].pc = "done"
         /\ thr[t].asked
         /\ (thr[t].outcome = OracleError \/ NoNumber(thr[t].outcome)))
        => (thr[t].ret = NEUTRAL_SCORE /\ ~thr[t].raised)

C8_Witness ==
    \E t, u \in Procs :
        /\ thr[t].pc = "done" /\ thr[t].outcome = OracleError /\ thr[t].ret = NEUTRAL_SCORE
        /\ thr[u].pc = "done" /\ thr[u].outcome = "n/a" /\ thr[u].ret = NEUTRAL_SCORE

\* the weights sum to 1.0 within 1e-6: |sum - 1000| <= 0.001 thousandths
SumsToOne(w) ==
    LET diff == SumValues(w.num) - 1000 * w.den
    IN  (IF diff < 0 THEN -diff ELSE diff) * 1000 <= w.den

present_fields(j) == DOMAIN BASE_WEIGHTS \ fields_absent(j)

C9_OutputCache ==
    sc.pc = "done" =>
        /\ sc.lookup = "recent" =>
               /\ ~sc.raised
               /\ sc.result = Some(ValueOf(sc.seen).details)
               /\ sc.scorers = {} /\ ~sc.allocated /\ ~sc.wrote
        /\ sc.lookup \in {"old", "absent"} =>
               /\ ~sc.raised
               /\ sc.result # None
               /\ (sc.scorers = DOMAIN BASE_WEIGHTS \/ sc.result = Some(no_common_tag_result))

\* C10: tag short-circuit.  With activate_tags, no common tag and no recent stored
\* row, the call returns total_score 0.0, every dimension score 0.0 and tag bonus
\* 0, and runs neither adaptive_weights nor any scorer (so asks no oracle).
C10_TagShortCircuit ==
    (/\ sc.pc = "done"
     /\ sc.activate_tags
     /\ lower_tags(sc.candidate.tags) \cap lower_tags(job.tags) = {}
     /\ sc.lookup # "recent")
    => /\ ~sc.raised
       /\ sc.result # None
       /\ ValueOf(sc.result).total_score.weighted = 0
       /\ \A category \in DOMAIN BASE_WEIGHTS : ValueOf(sc.result).scores[category] = 0
       /\ ValueOf(sc.result).tag_bonus = 0
       /\ ~sc.allocated /\ sc.scorers = {}

\* the largest of a set of scores, 0 when none is above 0
BestOf(scores) == IF scores = {} THEN 0 ELSE CHOOSE m \in scores \cup {0} : \A x \in scores \cup {0} : x <= m

\* the best similarity of required skill i over the candidate skills
BestSimilarity(args, i) ==
    BestOf({args.sim[<<args.candidate_skills[k], args.required_skills[i].skill>>] :
               k \in 1..Len(args.candidate_skills)})

\* the contributions of the required skills of one category, in order
RECURSIVE Contributions(_, _, _, _)
Contributions(args, i, category, gated) ==
    IF i > Len(args.required_skills) THEN <<>>
    ELSE (IF lower(args.required_skills[i].category) = category
          THEN <<IF gated /\ BestSimilarity(args, i) < 80 THEN 0 ELSE BestSimilarity(args, i)>>
          ELSE <<>>) \o Contributions(args, i + 1, category, gated)

\* C11: mandatory hard-skill gate.  A mandatory required skill contributes 0 to
\* the mandatory average when its best similarity is below 0.8 and the best
\* similarity itself otherwise; a recommended skill contributes its best
\* similarity, whatever it is.
C11_MandatoryGate ==
    (/\ call_result # None
     /\ ~ValueOf(call_result).raised
     /\ ValueOf(call_args).candidate_skills # <<>>)
    => /\ ValueOf(call_result).obligatory_scores
              = Contributions(ValueOf(call_args), 1, "obligatoire", TRUE)
       /\ ValueOf(call_result).recommended_scores
              = Contributions(ValueOf(call_args), 1, "recommande", FALSE)

C11_Witness ==
    /\ call_result # None
    /\ ValueOf(call_args).candidate_skills = <<"c1", "c2">>
    /\ ValueOf(call_args).sim[<<"c1", "j1">>] = 0 /\ ValueOf(call_args).sim[<<"c2", "j1">>] = 79
    /\ ValueOf(call_args).sim[<<"c1", "j2">>] = 80 /\ ValueOf(call_args).sim[<<"c2", "j2">>] = 0
    /\ ValueOf(call_result).obligatory_scores = <<0, 80>>

\* C12: scorer failure isolation.  Whatever subset of the seven tasks raises, a
\* call that ran them returns a result in which a failed dimension scores 0.0 with
\* empty details, any other dimension keeps the score its task computed, the
\* total is the weighted sum of these, and the result is the stored row when
\* save_result is set and both identifiers are present.
C12_ScorerFailureIsolation ==
    (sc.pc = "done" /\ sc.scorers # {}) =>
        /\ ~sc.raised
        /\ sc.result # None
        /\ \A category \in DOMAIN BASE_WEIGHTS :
               ValueOf(sc.result).scores[category]
                   = (IF sc.futures[category] = None THEN 0 ELSE ValueOf(sc.futures[category]))
        /\ \A category \in TextScorers :
               sc.futures[category] = None => ValueOf(sc.result).details[category] = "[]"
        /\ ValueOf(sc.result).total_score.weighted
               = SumValues([category \in DOMAIN BASE_WEIGHTS |->
                               IF sc.futures[category] = None THEN 0
                               ELSE weights.num[category] * ValueOf(sc.futures[category])])
        /\ ValueOf(sc.result).total_score.den = weights.den
        /\ (sc.save_result /\ sc.candidate.id # "" /\ job.id # "") =>
               /\ get_match_result(job.id, sc.candidate.id) # None
               /\ ValueOf(get_match_result(job.id, sc.candidate.id)).details = ValueOf(sc.result)

C12_Witness ==
    /\ sc.pc = "done" /\ sc.save_result /\ sc.candidate.id = "c1"
    /\ sc.futures # EmptyMap
    /\ {category \in DOMAIN BASE_WEIGHTS : sc.futures[category] = None}
           = {"hard_skills", "degree", "salary"}
    /\ ValueOf(sc.result).scores["experience"] = 100
    /\ ValueOf(get_match_result("j1", "c1")).details = ValueOf(sc.result)

(***************************************************************************)
(* save_match_result (database.py) under concurrent callers.  A caller     *)
(* reads the clock, then its statement runs and the connection commits, or *)
(* the connection fails and the transaction is rolled back.  call_args     *)
(* holds each caller's pending upsert, call_result the last committed      *)
(* upsert of each pair and whether it took the ON CONFLICT branch.         *)
(***************************************************************************)
StorePairs == {<<"j1", "c1">>, <<"j1", "c2">>}

StoreDetails == {no_common_tag_result, [no_common_tag_result EXCEPT !.reason = ""]}

StoreScores == {0, 100}

StoreUpserts ==
    {[job_id |-> pair[1], candidate_id |-> pair[2], total_score |-> total_score, details |-> details] :
        pair \in StorePairs, total_score \in StoreScores, details \in StoreDetails}

\* the rows of the table that carry a pair
rows_of(pair) ==
    {row \in match_results : row.job_id = pair[1] /\ row.candidate_id = pair[2]}

InitStore ==
    /\ InitSim /\ max_cache_entries = 1
    /\ now = 0 /\ ticks = 0
    /\ match_results = {} /\ sc = ScIdle /\ score_calls = 0
    /\ job = FullJob /\ weights = EmptyMap
    /\ call_args = [t \in Procs |-> None]
    /\ call_result = [pair \in StorePairs |-> None]

\* lines 325-343: the call is entered and now = int(time.time()) is read
SaveBegin(t, upsert) ==
    /\ call_args[t] = None
    /\ call_args' = [call_args EXCEPT ![t] =
           Some(match_row(upsert.job_id, upsert.candidate_id, upsert.total_score,
                          upsert.details, now))]
    /\ UNCHANGED <<call_result, match_results, sc, score_calls, now, ticks, simVars, weightVars>>

\* lines 345-360: the statement runs and get_connection commits
SaveCommit(t) ==
    /\ call_args[t] # None
    /\ LET upsert == ValueOf(call_args[t])
       IN  /\ match_results' = upsert_match_result(upsert.job_id, upsert.candidate_id,
                                                   upsert.total_score, upsert.details,
                                                   upsert.timestamp)
           /\ call_result' = [call_result EXCEPT ![<<upsert.job_id, upsert.candidate_id>>] =
                  Some([row |-> upsert,
                        conflict |-> rows_of(<<upsert.job_id, upsert.candidate_id>>) # {}])]
    /\ call_args' = [call_args EXCEPT ![t] = None]
    /\ UNCHANGED <<sc, score_calls, now, ticks, simVars, weightVars>>

\* get_connection, lines 94-97: the statement or the commit raises, rollback
SaveRollback(t) ==
    /\ call_args[t] # None
    /\ call_args' = [call_args EXCEPT ![t] = None]
    /\ UNCHANGED <<call_result, match_results, sc, score_calls, now, ticks, simVars, weightVars>>

NextStore ==
    \/ \E t \in Procs, upsert \in StoreUpserts : SaveBegin(t, upsert)
    \/ \E t \in Procs : SaveCommit(t)
    \/ \E t \in Procs : SaveRollback(t)
    \/ Tick(1)

SpecStore == InitStore /\ [][NextStore]_vars

\* C13: after any interleaving of upserts the table holds at most one row per
\* (job_id, candidate_id); a pair with a committed upsert holds exactly the row
\* of the last committed one (its score, details and timestamp), a pair with
\* none holds no row; and a commit leaves the rows of every other pair as they
\* were.
C13_UniqueAndOverwritten ==
    /\ \A pair \in StorePairs :
           rows_of(pair) = IF call_result[pair] = None THEN {}
                           ELSE {ValueOf(call_result[pair]).row}
    /\ \A row \in match_results : <<row.job_id, row.candidate_id>> \in StorePairs

\* the row of ("j1", "c1") was overwritten by a caller that had read the clock
\* before the caller whose row it replaced, next to a row of another pair
C13_Witness ==
    /\ call_result[<<"j1", "c1">>] # None
    /\ ValueOf(call_result[<<"j1", "c1">>]).conflict
    /\ ValueOf(call_result[<<"j1", "c1">>]).row.timestamp = 0
    /\ ValueOf(call_result[<<"j1", "c1">>]).row.total_score = 100
    /\ now = 2
    /\ \E row \in match_results : row.candidate_id = "c2" /\ row.timestamp = 1

(***************************************************************************)
(* Properties of the salary and remote dimensions.                         *)
(***************************************************************************)
\* C14: absence never penalizes salary or remote.  Once the scorers were
\* collected, a salary scorer that did not raise scored 1.0 when the candidate's
\* minimum or the job's salary is unknown, a remote scorer that did not raise
\* scored 1.0 when the candidate's preference or the job's offering is absent,
\* and a 0.0 of either comes only from two known values that conflict.
C14_AbsenceNeverPenalizes ==
    (sc.pc \in {"collected", "done"} /\ sc.scorers = DOMAIN BASE_WEIGHTS) =>
        /\ sc.futures["salary"] # None =>
               /\ (sc.candidate.min_salary = 0 \/ job.salary = None)
                      => sc.results["salary"] = 100
               /\ sc.results["salary"] = 0
                      => /\ sc.candidate.min_salary # 0 /\ job.salary # None
                         /\ ValueOf(job.salary) < sc.candidate.min_salary
        /\ sc.futures["remote_work"] # None =>
               /\ (sc.candidate.wants_remote = None \/ job.offers_remote = None)
                      => sc.results["remote_work"] = 100
               /\ sc.results["remote_work"] = 0
                      => /\ sc.candidate.wants_remote # None /\ job.offers_remote # None
                         /\ sc.candidate.wants_remote # job.offers_remote

(***************************************************************************)
(* Properties of the tag bonus and of the identifiers.                     *)
(***************************************************************************)
\* the tags the candidate and the job share, compared in lower case
shared_tags == lower_tags(sc.candidate.tags) \cap lower_tags(job.tags)

C16_MissingIdentifiers ==
    /\ []((sc.pc # "idle" /\ (sc.candidate.id = "" \/ job.id = "")) =>
             /\ sc.lookup = "skipped" /\ sc.seen = None
             /\ ~sc.wrote /\ ~sc.raised
             /\ sc.pc = "done" =>
                    /\ sc.result # None
                    /\ (sc.scorers = DOMAIN BASE_WEIGHTS
                            \/ sc.result = Some(no_common_tag_result)))
    /\ [][(sc'.pc # "idle" /\ (sc'.candidate.id = "" \/ job'.id = ""))
              => match_results' = match_results]_vars

\* a call without a job id, asked to save, returned a computed result next to
\* the row stored earlier for ("j1", "c1")
C16_Witness ==
    /\ sc.pc = "done" /\ sc.save_result
    /\ job.id = "" /\ sc.candidate.id = "c1"
    /\ sc.scorers = DOMAIN BASE_WEIGHTS
    /\ sc.result # None
    /\ match_results # {}

(***************************************************************************)
(* Properties of the durable cache of similarity scores.                   *)
(***************************************************************************)
\* C17: write-through on every oracle outcome.  When a call that reached the
\* oracle returns, the durable table of its kind holds a row for its pair whose
\* score is the returned score, whether the oracle answered with a number,
\* answered without one, or raised.
C17_WriteThrough ==
    [][\A t \in Procs :
          (Completes(t) /\ thr'[t].asked /\ ~thr'[t].raised)
          => /\ SortedOf[thr'[t].a, thr'[t].b] \in DOMAIN pg'[thr'[t].kind]
             /\ pg'[thr'[t].kind][SortedOf[thr'[t].a, thr'[t].b]].score = thr'[t].ret]_vars

\* the same for the calls whose oracle did not raise
C17_WriteThroughWhenAnswered ==
    [][\A t \in Procs :
          (Completes(t) /\ thr'[t].asked /\ ~thr'[t].raised /\ thr'[t].outcome # OracleError)
          => /\ SortedOf[thr'[t].a, thr'[t].b] \in DOMAIN pg'[thr'[t].kind]
             /\ pg'[thr'[t].kind][SortedOf[thr'[t].a, thr'[t].b]].score = thr'[t].ret]_vars

(***************************************************************************)
(* check_skills_relations (similarity.py) called on its own, on every pair *)
(* of names of TECH_SKILLS_RELATIONS.  It is what calculate_skill_         *)
(* similarity returns for two names that differ after normalization when   *)
(* neither cache tier holds the pair and it is not None.                   *)
(***************************************************************************)
\* the base keys and the related skills of the table
SkillNames ==
    UNION {{TECH_SKILLS_RELATIONS[i].base} \cup TECH_SKILLS_RELATIONS[i].related :
               i \in 1..Len(TECH_SKILLS_RELATIONS)}

InitRelations ==
    /\ InitSim /\ max_cache_entries = 1
    /\ now = 0 /\ ticks = 0
    /\ match_results = {} /\ sc = ScIdle /\ score_calls = 0
    /\ job = FullJob /\ weights = EmptyMap
    /\ call_args \in {Some([skill1 |-> x, skill2 |-> y]) : x \in SkillNames, y \in SkillNames}
    /\ call_result = None

CheckSkillsRelations ==
    /\ call_args # None /\ call_result = None
    /\ call_result' = Some([relation_score |->
                               check_skills_relations(ValueOf(call_args).skill1,
                                                      ValueOf(call_args).skill2)])
    /\ UNCHANGED <<call_args, simVars, weightVars, scoreVars, now, ticks>>

NextRelations == CheckSkillsRelations

SpecRelations == InitRelations /\ [][NextRelations]_vars

\* one of x, y is a base key and the other is among its related skills
BaseAndRelated(x, y) ==
    \E i \in 1..Len(TECH_SKILLS_RELATIONS) :
        \/ x = TECH_SKILLS_RELATIONS[i].base /\ y \in TECH_SKILLS_RELATIONS[i].related
        \/ y = TECH_SKILLS_RELATIONS[i].base /\ x \in TECH_SKILLS_RELATIONS[i].related

\* x and y are both among the related skills of one base key
RelatedToCommonBase(x, y) ==
    \E i \in 1..Len(TECH_SKILLS_RELATIONS) :
        x \in TECH_SKILLS_RELATIONS[i].related /\ y \in TECH_SKILLS_RELATIONS[i].related

\* C18: rule table scores.  For two distinct skills of which one is a base key
\* and the other among its related skills the rule table gives 0.85, in both
\* orders, also when both are related to another base; it gives 0.70 only to a
\* pair without such a match whose skills are both related to a common base.
C18_RuleTableScores ==
    call_result # None =>
        LET x == ValueOf(call_args).skill1
            y == ValueOf(call_args).skill2
            relation_score == ValueOf(call_result).relation_score
        IN  x # y =>
                /\ BaseAndRelated(x, y) => relation_score = Some(BASE_RELATION_SCORE)
                /\ relation_score = Some(SAME_BASE_SCORE) =>
                       (~BaseAndRelated(x, y) /\ RelatedToCommonBase(x, y))

\* the pairs of operands that normalize to the same undirected pair as (a, b)
SameNormalizedPair(a, b) ==
    {p \in SimPairs : {NormalizedOf[p[1]], NormalizedOf[p[2]]} = {NormalizedOf[a], NormalizedOf[b]}}

\* C19: cache keys are normalized.  A call goes on to the oracle only when
\* neither tier holds an entry written for operands that normalize to the same
\* pair as its own: after such a write the call is a cache hit.
C19_NormalizedKeys ==
    [][\A t \in Procs :
          (thr[t].pc = "check2" /\ thr'[t].pc = "oracle")
          => \A p \in SameNormalizedPair(thr[t].a, thr[t].b) :
                 /\ CacheKeyOf[thr[t].kind, p[1], p[2]] \notin DOMAIN redis
                 /\ SortedOf[p[1], p[2]] \notin DOMAIN pg[thr[t].kind]]_vars

(***************************************************************************)
(* The similarity functions with the clock running: two callers, the pairs *)
(* below, and time.time() advancing between their steps.                   *)
(***************************************************************************)
RefreshKinds == {"name", "hard_skills"}

RefreshPairs == {<<"go", "r">>, <<"r", "go">>}

NextRefresh ==
    \/ \E t \in Procs, kind \in RefreshKinds, p \in RefreshPairs : Call(t, kind, p[1], p[2])
    \/ \E t \in Procs : CacheCheck1(t)
    \/ \E t \in Procs : CacheCheck2(t)
    \/ \E t \in Procs, outcome \in OracleResponses \cup {OracleError} : OracleCall(t, outcome)
    \/ \E t \in Procs : SaveRedis(t)
    \/ \E t \in Procs : SavePg(t)
    \/ \E t \in Procs : Return(t)
    \/ \E key \in DOMAIN redis : RedisExpire(key)
    \/ Tick(1)

SpecRefresh == Init /\ [][NextRefresh]_vars

\* the step in which caller t is answered from the lru_cache memo
MemoHit(t) ==
    /\ thr[t].pc = "idle" /\ thr'[t].pc = "done"
    /\ thr'[t].kind = "hard_skills"
    /\ <<thr'[t].a, thr'[t].b>> \in DOMAIN memo

\* the step in which caller t is answered from Redis or PostgreSQL
TierHit(t) ==
    /\ thr[t].pc \in {"check1", "check2"} /\ thr'[t].pc = "done"
    /\ cache_lookup(thr[t].kind, thr[t].a, thr[t].b) # None

\* C20: timestamp refresh on hit.  Every call answered from the cache, by the
\* memo, Redis or PostgreSQL, leaves the durable row of its pair, when there is
\* one, with the time of the call as its timestamp.
C20_RefreshOnHit ==
    [][\A t \in Procs :
          (MemoHit(t) \/ TierHit(t))
          => (SortedOf[thr'[t].a, thr'[t].b] \in DOMAIN pg'[thr'[t].kind]
                 => pg'[thr'[t].kind][SortedOf[thr'[t].a, thr'[t].b]].timestamp = now)]_vars

(***************************************************************************)
(* save_similarity_to_cache (database.py) on a table that is full or one   *)
(* row short of full: MAX_CACHE_ENTRIES is 10 or 11, so that               *)
(* int(MAX_CACHE_ENTRIES * 0.1) is 1, and name_similarity_cache holds the  *)
(* rows of earlier calls on other pairs.                                   *)
(***************************************************************************)
EvictMaxEntries == {10, 11}

\* the first texts of the rows stored earlier; each is paired with "z"
FillerTexts == <<"k01", "k02", "k03", "k04", "k05", "k06", "k07", "k08", "k09", "k10", "k11">>

\* how the timestamps of the stored rows lie: all equal, one per write, or one
\* row older than all others
FillPatterns == {"equal", "ascending", "one_oldest"}

filler_timestamp(pattern, i) ==
    IF pattern = "equal" THEN 0
    ELSE IF pattern = "ascending" THEN i - 1
    ELSE IF i = 3 THEN 0 ELSE 5

\* a table of n rows written by earlier calls of save_similarity_to_cache
filled_table(n, pattern) ==
    [key \in {<<FillerTexts[i], "z">> : i \in 1..n} |->
        [score |-> NEUTRAL_SCORE,
         timestamp |-> filler_timestamp(pattern, CHOOSE i \in 1..n : FillerTexts[i] = key[1])]]

EvictPairs == {<<"go", "r">>, <<"go", "gin">>}

\* the oracle answers with a number, or raises
EvictOutcomes == {"Score: 0.3.", "5", OracleError}

InitEvict ==
    /\ memo = EmptyMap /\ redis = EmptyMap
    /\ max_cache_entries \in EvictMaxEntries
    /\ \E n \in {max_cache_entries - 1, max_cache_entries} : \E pattern \in FillPatterns :
           pg = [kind \in CacheTypes |->
                    IF kind = "name" THEN filled_table(n, pattern)
                    ELSE IF kind = "degree_domain" THEN filled_table(1, "equal")
                    ELSE EmptyMap]
    /\ thr = [t \in Procs |-> Idle]
    /\ calls = 0
    /\ now = 11 /\ ticks = 0
    /\ job = FullJob /\ weights = EmptyMap
    /\ match_results = {} /\ sc = ScIdle /\ score_calls = 0
    /\ call_args = None /\ call_result = None

NextEvict ==
    \/ \E t \in Procs, p \in EvictPairs : Call(t, "name", p[1], p[2])
    \/ \E t \in Procs : CacheCheck1(t)
    \/ \E t \in Procs : CacheCheck2(t)
    \/ \E t \in Procs, outcome \in EvictOutcomes : OracleCall(t, outcome)
    \/ \E t \in Procs : SaveRedis(t)
    \/ \E t \in Procs : SavePg(t)
    \/ \E t \in Procs : Return(t)
    \/ \E key \in DOMAIN redis : RedisExpire(key)
    \/ Tick(1)

SpecEvict == InitEvict /\ [][NextEvict]_vars

\* the step in which caller t commits the transaction of save_similarity_to_cache
Saves(t) == thr[t].pc = "save_pg" /\ thr'[t].pc = "done" /\ pg' # pg

\* C21: eviction victims.  A save that finds its table at MAX_CACHE_ENTRIES rows
\* or more removes exactly floor(MAX_CACHE_ENTRIES / 10) rows of that table, none
\* newer than a row that stays; the rows that stay keep their values, the
\* tables of the other kinds are untouched, and the saved row is present with
\* the saved score and the time of the save.
C21_EvictionVictims ==
    [][\A t \in Procs :
          (Saves(t) /\ Cardinality(DOMAIN pg[thr[t].kind]) >= max_cache_entries) =>
              LET old == pg[thr[t].kind]
                  new == pg'[thr[t].kind]
                  key == SortedOf[thr[t].a, thr[t].b]
              IN  /\ \E D \in SUBSET (DOMAIN old) :
                         /\ Cardinality(D) = max_cache_entries \div 10
                         /\ \A d \in D : \A x \in (DOMAIN old) \ D :
                                old[d].timestamp <= old[x].timestamp
                         /\ DOMAIN new = ((DOMAIN old) \ D) \cup {key}
                  /\ \A x \in (DOMAIN new) \ {key} : new[x] = old[x]
                  /\ key \in DOMAIN new
                  /\ new[key] = [score |-> thr[t].score, timestamp |-> now]
                  /\ \A kind \in CacheTypes \ {thr[t].kind} : pg'[kind] = pg[kind]]_vars

\* the one oldest row of a full table of 10 was removed by the save of ("go", "r")
C21_Witness ==
    /\ max_cache_entries = 10
    /\ Cardinality(DOMAIN pg["name"]) = 10
    /\ <<"k03", "z">> \notin DOMAIN pg["name"]
    /\ <<"k01", "z">> \in DOMAIN pg["name"] /\ pg["name"][<<"k01", "z">>].timestamp = 5
    /\ <<"go", "r">> \in DOMAIN pg["name"] /\ pg["name"][<<"go", "r">>].timestamp >= 11
    /\ \E t \in Procs : thr[t].pc = "done" /\ thr[t].wrote /\ thr[t].a = "go" /\ thr[t].b = "r"

\* C22: no eviction on re-save.  A save for a key that is already in the durable
\* table changes only that row's score and timestamp and removes no other row,
\* also when the table is at its maximum size.
C22_NoEvictionOnResave ==
    [][\A t \in Procs :
          (Saves(t) /\ SortedOf[thr[t].a, thr[t].b] \in DOMAIN pg[thr[t].kind]) =>
              LET old == pg[thr[t].kind]
                  new == pg'[thr[t].kind]
                  key == SortedOf[thr[t].a, thr[t].b]
              IN  /\ DOMAIN new = DOMAIN old
                  /\ \A x \in (DOMAIN new) \ {key} : new[x] = old[x]
                  /\ new[key] = [score |-> thr[t].score, timestamp |-> now]]_vars

(***************************************************************************)
(* Properties of the fixed weights.                                        *)
(***************************************************************************)
\* the sum of the allocated numerators of the fields of F
allocated_sum(F) ==
    SumValues([field \in DOMAIN BASE_WEIGHTS |-> IF field \in F THEN weights.num[field] ELSE 0])

\* the sum of the base weights of the fields of F
base_sum(F) ==
    SumValues([field \in DOMAIN BASE_WEIGHTS |-> IF field \in F THEN BASE_WEIGHTS[field] ELSE 0])

\* salary and remote_work weigh 0.025 when present and 0 when absent
fixed_kept_or_zero ==
    \A field \in FIXED_FIELDS :
        weights.num[field] = (IF field \in present_fields(job) THEN BASE_WEIGHTS[field] ELSE 0)
                                 * weights.den

\* C23 as stated: fixed weights.  salary and remote_work weigh 0.025 when
\* present and 0 when absent, and the mass of an absent one is dropped: the
\* adjustable dimensions of a job that has any weigh together what the
\* adjustable dimensions weigh in the base weights, 0.95.
C23_FixedMassDropped ==
    weights # EmptyMap =>
        /\ fixed_kept_or_zero
        /\ (present_fields(job) \ FIXED_FIELDS # {}) =>
               allocated_sum(DOMAIN BASE_WEIGHTS \ FIXED_FIELDS)
                   = base_sum(DOMAIN BASE_WEIGHTS \ FIXED_FIELDS) * weights.den

\* C23 amended: salary and remote_work weigh 0.025 when present and 0 when
\* absent; the present adjustable dimensions share, in proportion to their base
\* weights, all the mass the present fixed dimensions leave, the mass of an
\* absent salary or remote_work included; absent dimensions weigh 0.
C23_FixedMassRedistributed ==
    weights # EmptyMap =>
        LET adjustable == present_fields(job) \ FIXED_FIELDS
        IN  /\ fixed_kept_or_zero
            /\ \A field \in fields_absent(job) : weights.num[field] = 0
            /\ adjustable # {} =>
                   /\ allocated_sum(adjustable)
                          = (SumValues(BASE_WEIGHTS) - base_sum(present_fields(job) \cap FIXED_FIELDS))
                                * weights.den
                   /\ \A f, g \in adjustable :
                          weights.num[f] * BASE_WEIGHTS[g] = weights.num[g] * BASE_WEIGHTS[f]

\* salary absent, remote_work present: the four present adjustable dimensions
\* weigh 0.975 together
C23_Witness ==
    /\ weights # EmptyMap
    /\ present_fields(job) = {"hard_skills", "experience", "degree", "languages", "remote_work"}
    /\ weights.num["salary"] = 0
    /\ weights.num["remote_work"] = 25 * weights.den
    /\ allocated_sum({"hard_skills", "experience", "degree", "languages"}) = 975 * weights.den

(***************************************************************************)
(* The thread pool of calculate_match_score (scoring.py, lines 537-590),   *)
(* task by task: the seven tasks are submitted, the pool's workers start   *)
(* them in the order of submission, each returns or raises in its own      *)
(* time, the caller collects future.result() in the order of the dict, and *)
(* the with block is left when the pool has shut down.                     *)
(***************************************************************************)
\* the keys of tasks, in the order of the dict
TaskOrder == <<"experience", "degree", "hard_skills", "soft_skills", "languages", "salary",
               "remote_work">>

\* max_workers of ThreadPoolExecutor(): min(32, os.cpu_count() + 4), from 5 up;
\* 7 stands for every size that holds all tasks
PoolSizes == {5, 7}

position_of(category) == CHOOSE i \in 1..Len(TaskOrder) : TaskOrder[i] = category

\* what the future of a task yields when the task ends: Some(score), None when it raised
TaskOutcomes(category) ==
    IF category \in TextScorers THEN ScorerOutcomes
    ELSE IF category = "salary"
        THEN {Some(salary_score(sc.candidate.min_salary, GetOr(job.salary, 0))), None}
    ELSE {Some(remote_work_score(Some(GetOr(sc.candidate.wants_remote, FALSE)),
                                 Some(GetOr(job.offers_remote, FALSE)))), None}

\* lines 537-575: the pool is created and the seven tasks are submitted
SubmitTasks(max_workers) ==
    /\ sc.pc = "tasks"
    /\ sc' = [sc EXCEPT !.pc = "pool", !.max_workers = max_workers,
                        !.task = [category \in DOMAIN BASE_WEIGHTS |-> "queued"],
                        !.futures = [category \in DOMAIN BASE_WEIGHTS |-> None]]
    /\ UNCHANGED <<fnVars, match_results, score_calls, weightVars, simVars, now, ticks>>

\* a free worker takes the first task of the queue
StartTask(category) ==
    /\ sc.pc = "pool"
    /\ sc.task[category] = "queued"
    /\ Cardinality({c \in DOMAIN BASE_WEIGHTS : sc.task[c] = "running"}) < sc.max_workers
    /\ \A c \in DOMAIN BASE_WEIGHTS : position_of(c) < position_of(category) => sc.task[c] # "queued"
    /\ sc' = [sc EXCEPT !.task[category] = "running"]
    /\ UNCHANGED <<fnVars, match_results, score_calls, weightVars, simVars, now, ticks>>

\* a running task returns its score or raises
EndTask(category, outcome) ==
    /\ sc.pc = "pool"
    /\ sc.task[category] = "running"
    /\ outcome \in TaskOutcomes(category)
    /\ sc' = [sc EXCEPT !.task[category] = IF outcome = None THEN "raised" ELSE "returned",
                        !.futures[category] = outcome]
    /\ UNCHANGED <<fnVars, match_results, score_calls, weightVars, simVars, now, ticks>>

\* lines 578-590: future.result() of the next key of tasks, once its task has ended
CollectResult ==
    /\ sc.pc = "pool"
    /\ sc.collected_upto < Len(TaskOrder)
    /\ LET category == TaskOrder[sc.collected_upto + 1]
       IN  /\ sc.task[category] \in {"returned", "raised"}
           /\ sc' = [sc EXCEPT !.collected_upto = sc.collected_upto + 1,
                               !.results = Put(sc.results, category,
                                               collected_score(sc.futures[category]))]
    /\ UNCHANGED <<fnVars, match_results, score_calls, weightVars, simVars, now, ticks>>

\* the caller would go on after the first collected result
joined_after_first(collected_upto, task) == collected_upto >= 1

\* the loop of lines 578-590 has run over all of tasks, and the with block's
\* exit (shutdown(wait=True)) has found every task ended
joined(collected_upto, task) ==
    /\ collected_upto = Len(TaskOrder)
    /\ \A category \in DOMAIN task : task[category] \in {"returned", "raised"}

\* the with block is left
ExitPool ==
    /\ sc.pc = "pool"
    /\ joined(sc.collected_upto, sc.task)
    /\ sc' = [sc EXCEPT !.pc = "collected",
                        !.scorers = DOMAIN BASE_WEIGHTS,
                        !.details = [category \in TextScorers |->
                                        IF sc.futures[category] = None THEN "[]" ELSE "computed"]]
    /\ UNCHANGED <<fnVars, match_results, score_calls, weightVars, simVars, now, ticks>>

JoinCandidate == [id |-> "c1", tags |-> {"python", "GO"}, min_salary |-> 40, wants_remote |-> Some(TRUE)]

InitJoin ==
    /\ memo = EmptyMap /\ redis = EmptyMap /\ pg = [k \in CacheTypes |-> EmptyMap]
    /\ max_cache_entries = 1
    /\ thr = [t \in Procs |-> Idle]
    /\ calls = 0
    /\ now = 0 /\ ticks = 0
    /\ match_results = {} /\ sc = ScIdle /\ score_calls = 0
    /\ job = [FullJob EXCEPT !.tags = {"Python", "go", "SQL"}]
    /\ weights = EmptyMap
    /\ call_args = None /\ call_result = None

NextJoin ==
    \/ \E activate_tags \in BOOLEAN, save_result \in BOOLEAN :
           score_calls = 0 /\ ScoreCall(JoinCandidate, activate_tags, save_result, FALSE)
    \/ \E max_workers \in PoolSizes : SubmitTasks(max_workers)
    \/ \E category \in DOMAIN BASE_WEIGHTS : StartTask(category)
    \/ \E category \in DOMAIN BASE_WEIGHTS, outcome \in ScorerOutcomes \cup {Some(0)} :
           EndTask(category, outcome)
    \/ CollectResult
    \/ ExitPool
    \/ Finish
    \/ ScoreReturn

SpecJoin == InitJoin /\ [][NextJoin]_vars

ended_tasks == {category \in DOMAIN sc.task : sc.task[category] \in {"returned", "raised"}}

\* C24: join barrier.  Whatever the order in which the seven tasks start and
\* end, the scores are aggregated, the result is stored and the call returns
\* only after each of the seven has returned or raised; every task that raised
\* counts 0.0 and every other counts its own score; and no step takes a queued
\* or running task out of the pool other than its own start and end.
C24_JoinBarrier ==
    /\ []((sc.pc \in {"collected", "done"} /\ sc.scorers # {}) =>
             /\ ended_tasks = DOMAIN BASE_WEIGHTS
             /\ \A category \in DOMAIN BASE_WEIGHTS :
                    sc.results[category] = IF sc.task[category] = "raised" THEN 0
                                           ELSE ValueOf(sc.futures[category]))
    /\ [][(sc.pc = "pool" /\ (match_results' # match_results \/ sc'.result # None
                                 \/ sc'.pc \notin {"pool", "collected"})) => FALSE]_vars
    /\ [][(sc.pc = "pool" /\ sc'.pc = "pool") =>
             \A category \in DOMAIN BASE_WEIGHTS :
                 /\ sc.task[category] = "queued" => sc'.task[category] \in {"queued", "running"}
                 /\ sc.task[category] = "running"
                        => sc'.task[category] \in {"running", "returned", "raised"}
                 /\ sc.task[category] \in {"returned", "raised"}
                        => sc'.task[category] = sc.task[category]]_vars

\* with a pool of five workers the call returned and stored a result in which
\* hard_skills, whose task raised, counts 0.0 and the six others their scores
C24_Witness ==
    /\ sc.pc = "done" /\ sc.wrote /\ sc.max_workers = 5
    /\ sc.task["hard_skills"] = "raised"
    /\ \A category \in DOMAIN BASE_WEIGHTS \ {"hard_skills"} : sc.task[category] = "returned"
    /\ ValueOf(sc.result).scores["hard_skills"] = 0
    /\ ValueOf(sc.result).scores["remote_work"] = 100
    /\ match_results # {}

(***************************************************************************)
(* Durable writes that fail: the transaction of save_similarity_to_cache   *)
(* on a full table (reached from get_name_similarity through the oracle,   *)
(* and from calculate_skill_similarity through the rule table), and        *)
(* save_match_result at the end of calculate_match_score.                  *)
(***************************************************************************)
WriteFaultKinds == {"name", "hard_skills"}

InitWriteFaults ==
    /\ memo = EmptyMap /\ redis = EmptyMap
    /\ max_cache_entries \in EvictMaxEntries
    /\ \E pattern \in FillPatterns :
           pg = [kind \in CacheTypes |-> filled_table(max_cache_entries, pattern)]
    /\ thr = [t \in Procs |-> Idle]
    /\ calls = 0
    /\ now = DAY_SECONDS /\ ticks = 0
    /\ job = [FullJob EXCEPT !.tags = {"Python", "go", "SQL"}] /\ weights = EmptyMap
    /\ match_results \in StoredBefore /\ sc = ScIdle /\ score_calls = 0
    /\ call_args = None /\ call_result = None

NextWriteFaults ==
    \/ \E kind \in WriteFaultKinds : Call("t1", kind, "go", "gin")
    \/ CacheCheck1("t1")
    \/ CacheCheck2("t1")
    \/ \E outcome \in EvictOutcomes : OracleCall("t1", outcome)
    \/ SaveRedis("t1")
    \/ SavePg("t1")
    \/ SavePgFails("t1")
    \/ Return("t1")
    \/ \E activate_tags \in BOOLEAN :
           score_calls = 0 /\ ScoreCall(JoinCandidate, activate_tags, TRUE, FALSE)
    \/ \E outcomes \in SomeOutcomes : RunTasks(outcomes, {})
    \/ Finish
    \/ FinishSaveFails
    \/ ScoreReturn

SpecWriteFaults == InitWriteFaults /\ [][NextWriteFaults]_vars

\* C25: atomic durable writes.  When the transaction of a similarity cache save
\* fails the durable tables are as they were before it, the rows it deleted
\* for eviction included, and the failure reaches the caller of the save: the
\* oracle path answers with its default 0.5 instead of the score, the rule
\* path raises.  When the upsert of a match result fails match_results is as it
\* was and the call raises instead of returning a result.
C25_AtomicDurableWrites ==
    /\ [][\A t \in Procs :
             (thr[t].pc = "save_pg" /\ thr'[t].pg_failed) =>
                 /\ pg' = pg
                 /\ thr'[t].pc = "done"
                 /\ IF thr[t].in_try
                    THEN thr'[t].ret = NEUTRAL_SCORE /\ ~thr'[t].raised
                    ELSE thr'[t].raised]_vars
    /\ [][(sc.pc = "collected" /\ sc'.pc = "done" /\ ~sc'.wrote) =>
             /\ match_results' = match_results
             /\ sc'.raised /\ sc'.result = None]_vars

\* on a full table a rule-path save of ("go", "gin") failed and raised, and the
\* upsert of the match result failed next to the row stored earlier
C25_Witness ==
    /\ thr["t1"].pc = "done" /\ thr["t1"].pg_failed /\ thr["t1"].raised
    /\ thr["t1"].kind = "hard_skills"
    /\ Cardinality(DOMAIN pg["hard_skills"]) = max_cache_entries
    /\ <<"gin", "go">> \notin DOMAIN pg["hard_skills"]
    /\ sc.pc = "done" /\ sc.raised /\ sc.scorers = DOMAIN BASE_WEIGHTS
    /\ match_results # {}

(***************************************************************************)
(* match_job_with_candidates (workable.py): the ranking of the candidates  *)
(* of one job.  call_args holds its arguments, call_result its progress:   *)
(* events is the list of the delays slept and of the oracle calls made, in *)
(* the order they happened.                                                *)
(***************************************************************************)
\* total_score as a number, in units of 0.0001 and rounded down:
\* (weighted / den) * (1 + tag_bonus), the quotient and the remainder multiplied apart
score_value(total_score) ==
    (total_score.weighted \div total_score.den) * (100 + total_score.tag_bonus)
        + ((total_score.weighted % total_score.den) * (100 + total_score.tag_bonus))
              \div total_score.den

rows_of_job(job_id) == {row \in match_results : row.job_id = job_id}

\* get_top_matches_for_job: SELECT ... WHERE job_id = %s ORDER BY total_score DESC LIMIT %s.
\* The results the statement can return, as sets of rows (rows of equal score
\* come in any order); the statement does not read the timestamp.
get_top_matches_for_job(job_id, limit) ==
    LET rows == rows_of_job(job_id)
        n == IF limit < Cardinality(rows) THEN limit ELSE Cardinality(rows)
    IN  {T \in SUBSET rows :
            /\ Cardinality(T) = n
            /\ \A r \in T, q \in rows \ T :
                  score_value(r.total_score) >= score_value(q.total_score)}

\* the candidates Workable lists for the job, and what their detail parses to
BulkCandidateIds == <<"c1", "c2", "c3">>

BulkCandidateOf(candidate_id) ==
    IF candidate_id = "c1"
    THEN [id |-> "c1", tags |-> {"python", "GO"}, min_salary |-> 40, wants_remote |-> Some(TRUE)]
    ELSE IF candidate_id = "c2"
    THEN [id |-> "c2", tags |-> {"python", "Go", "sql", "rust"}, min_salary |-> 0,
          wants_remote |-> Some(TRUE)]
    ELSE [id |-> candidate_id, tags |-> {"rust"}, min_salary |-> 60, wants_remote |-> None]

BulkTopN == {1, 2}

BulkIdle ==
    [pc |-> "idle", queue |-> <<>>, current |-> "", matches |-> <<>>, events |-> <<>>,
     source |-> "", top_matches |-> {}, sorted_top |-> <<>>, error |-> FALSE]

\* a candidate is followed by the sleep only when he has no recent row and is
\* not followed by it at all
step_after_lookup_no_sleep(recent) == IF recent THEN "loop" ELSE "detail"

\* lines 242-255: continue on a recent row, time.sleep(API_CALL_DELAY) otherwise
step_after_lookup(recent) == IF recent THEN "loop" ELSE "sleep"

\* lines 207-218: the stored rows are asked for first and returned when there
\* are top_n of them; json.loads raises on a column the driver decoded
BulkCall ==
    LET args == ValueOf(call_args)
        rows == rows_of_job(job.id)
    IN  /\ call_result.pc = "idle"
        /\ IF args.decoded /\ rows # {}
           THEN call_result' = [call_result EXCEPT !.pc = "done", !.error = TRUE]
           ELSE \E top_matches \in get_top_matches_for_job(job.id, args.top_n) :
                   IF Cardinality(top_matches) >= args.top_n
                   THEN call_result' = [call_result EXCEPT !.pc = "done", !.source = "database",
                                                            !.top_matches = top_matches]
                   ELSE call_result' = [call_result EXCEPT !.pc = "fetch"]
        /\ UNCHANGED <<call_args, simVars, weightVars, scoreVars, now, ticks>>

\* lines 222-234: the job and its candidates are fetched from Workable; an
\* error of either request is returned
BulkFetch(ok) ==
    /\ call_result.pc = "fetch"
    /\ call_result' = IF ok THEN [call_result EXCEPT !.pc = "loop", !.queue = BulkCandidateIds]
                      ELSE [call_result EXCEPT !.pc = "done", !.error = TRUE]
    /\ UNCHANGED <<call_args, simVars, weightVars, scoreVars, now, ticks>>

\* lines 238-251: the stored row of the next candidate; get_match_result raises
\* on a decoded column and the except clause goes on to the next candidate
BulkLookup ==
    LET args == ValueOf(call_args)
        candidate_id == Head(call_result.queue)
        existing_match == get_match_result(job.id, candidate_id)
        recent == existing_match # None /\ is_recent(ValueOf(existing_match))
    IN  /\ call_result.pc = "loop"
        /\ call_result.queue # <<>>
        /\ call_result' =
              IF existing_match # None /\ args.decoded
              THEN [call_result EXCEPT !.queue = Tail(@)]
              ELSE IF recent
              THEN [call_result EXCEPT
                       !.pc = step_after_lookup(TRUE),
                       !.queue = Tail(@),
                       !.matches = Append(@, [candidate_id |-> candidate_id,
                                              score |-> ValueOf(existing_match).total_score,
                                              source |-> "database"])]
              ELSE [call_result EXCEPT !.pc = step_after_lookup(FALSE), !.queue = Tail(@),
                                       !.current = candidate_id]
        /\ UNCHANGED <<call_args, simVars, weightVars, scoreVars, now, ticks>>

\* line 255: time.sleep(API_CALL_DELAY)
BulkSleep ==
    /\ call_result.pc = "sleep"
    /\ call_result' = [call_result EXCEPT
                          !.pc = "detail",
                          !.events = Append(@, [kind |-> "delay",
                                                candidate_id |-> call_result.current])]
    /\ UNCHANGED <<call_args, simVars, weightVars, scoreVars, now, ticks>>

\* lines 258-260: the candidate's detail; on an error the candidate is skipped
BulkDetail(ok) ==
    /\ call_result.pc = "detail"
    /\ call_result' = [call_result EXCEPT !.pc = IF ok THEN "score" ELSE "loop"]
    /\ UNCHANGED <<call_args, simVars, weightVars, scoreVars, now, ticks>>

\* line 266: calculate_match_score(parsed_candidate, parsed_job, activate_tags=activate_tags),
\* save_result left at its default True
BulkScoreCall ==
    LET args == ValueOf(call_args)
    IN  /\ call_result.pc = "score"
        /\ ScoreCallBody(BulkCandidateOf(call_result.current), args.activate_tags, TRUE,
                         args.decoded)
        /\ call_result' = [call_result EXCEPT !.pc = "scoring"]
        /\ UNCHANGED <<call_args, now, ticks>>

\* the scorers of that call run; oracle_calls of their similarity requests were
\* in no cache and went to the oracle
BulkOracleCalls == 0..2

BulkRunTasks(outcomes, oracle_calls) ==
    /\ call_result.pc = "scoring"
    /\ RunTasksBody(outcomes, {})
    /\ call_result' = [call_result EXCEPT
                          !.events = @ \o [k \in 1..oracle_calls |->
                                              [kind |-> "oracle",
                                               candidate_id |-> call_result.current]]]
    /\ UNCHANGED <<call_args, now, ticks>>

BulkFinish ==
    /\ call_result.pc = "scoring"
    /\ FinishBody
    /\ UNCHANGED <<fnVars, now, ticks>>

\* lines 266-282: the result of calculate_match_score joins the matches; an
\* exception out of it is caught and the candidate is skipped
BulkCollect ==
    /\ call_result.pc = "scoring"
    /\ sc.pc = "done"
    /\ sc' = ScIdle
    /\ call_result' =
          IF sc.raised
          THEN [call_result EXCEPT !.pc = "loop"]
          ELSE [call_result EXCEPT
                   !.pc = "loop",
                   !.matches = Append(@, [candidate_id |-> call_result.current,
                                          score |-> ValueOf(sc.result).total_score,
                                          source |-> "fresh_calculation"])]
    /\ UNCHANGED <<call_args, match_results, score_calls, simVars, weightVars, now, ticks>>

\* sorted(matches, key=lambda x: x['score'], reverse=True): the sort is stable
sorted_matches(matches) ==
    LET before(i) == Cardinality({j \in DOMAIN matches :
                         \/ score_value(matches[j].score) > score_value(matches[i].score)
                         \/ /\ score_value(matches[j].score) = score_value(matches[i].score)
                            /\ j < i})
    IN  [k \in DOMAIN matches |-> matches[CHOOSE i \in DOMAIN matches : before(i) = k - 1]]

\* lines 285-294: sorted_matches[:top_n] is returned
BulkReturn ==
    LET args == ValueOf(call_args)
        sorted == sorted_matches(call_result.matches)
        n == IF args.top_n < Len(sorted) THEN args.top_n ELSE Len(sorted)
    IN  /\ call_result.pc = "loop"
        /\ call_result.queue = <<>>
        /\ call_result' = [call_result EXCEPT !.pc = "done", !.sorted_top = SubSeq(sorted, 1, n)]
        /\ UNCHANGED <<call_args, simVars, weightVars, scoreVars, now, ticks>>

\* the rows earlier calls stored for the job: timestamp 0 is older than a day,
\* 1 turns a day old at the next second, DAY_SECONDS is new
BulkTimestamps == {0, 1, DAY_SECONDS}

bulk_row(candidate_id, timestamp) ==
    LET total_score == [weighted |-> IF candidate_id = "c1" THEN 0 ELSE 100, den |-> 1,
                        tag_bonus |-> 0]
    IN  match_row("j1", candidate_id, total_score,
                  [no_common_tag_result EXCEPT !.total_score = total_score], timestamp)

BulkStoredBefore ==
    {rows \in SUBSET {bulk_row(BulkCandidateIds[i], timestamp) :
                          i \in DOMAIN BulkCandidateIds, timestamp \in BulkTimestamps} :
        \A r, q \in rows : r.candidate_id = q.candidate_id => r = q}

InitBulk ==
    /\ memo = EmptyMap /\ redis = EmptyMap /\ pg = [k \in CacheTypes |-> EmptyMap]
    /\ max_cache_entries = 1
    /\ thr = [t \in Procs |-> Idle]
    /\ calls = 0
    /\ now = DAY_SECONDS /\ ticks = 0
    /\ match_results \in BulkStoredBefore /\ sc = ScIdle /\ score_calls = 0
    /\ job = [FullJob EXCEPT !.tags = {"Python", "go", "SQL"}]
    /\ weights = EmptyMap
    /\ call_args \in {Some([top_n |-> top_n, activate_tags |-> activate_tags,
                            decoded |-> decoded]) :
                         top_n \in BulkTopN, activate_tags \in BOOLEAN, decoded \in BOOLEAN}
    /\ call_result = BulkIdle

NextBulk ==
    \/ BulkCall
    \/ \E ok \in BOOLEAN : BulkFetch(ok)
    \/ BulkLookup
    \/ BulkSleep
    \/ \E ok \in BOOLEAN : BulkDetail(ok)
    \/ BulkScoreCall
    \/ \E outcomes \in SomeOutcomes, oracle_calls \in BulkOracleCalls :
          BulkRunTasks(outcomes, oracle_calls)
    \/ BulkFinish
    \/ BulkCollect
    \/ BulkReturn
    \/ Tick(1)

SpecBulk == InitBulk /\ [][NextBulk]_vars

\* the rows of the job that are younger than 24 hours
fresh_rows(job_id) == {row \in rows_of_job(job_id) : is_recent(row)}

\* C26: match_job_with_candidates returns the stored rows (source 'database')
\* without recomputation only when at least top_n stored rows of the job are
\* younger than 24 hours.
C26_DatabaseOnlyWhenFresh ==
    [][(call_result.pc = "idle" /\ call_result'.pc = "done"
            /\ call_result'.source = "database") =>
          Cardinality(fresh_rows(job.id)) >= ValueOf(call_args).top_n]_vars

\* C27: in one bulk call, between the oracle calls made for two different
\* candidates a delay is slept, and a candidate answered from a recent stored
\* row has neither a delay nor an oracle call.
C27_BulkThrottling ==
    LET events == call_result.events
        matches == call_result.matches
    IN  /\ \A i, j \in DOMAIN events :
              (/\ i < j
               /\ events[i].kind = "oracle" /\ events[j].kind = "oracle"
               /\ events[i].candidate_id # events[j].candidate_id) =>
                  \E k \in DOMAIN events : i < k /\ k < j /\ events[k].kind = "delay"
        /\ \A m \in DOMAIN matches :
              matches[m].source = "database" =>
                  \A k \in DOMAIN events : events[k].candidate_id # matches[m].candidate_id

\* two candidates were recomputed with oracle calls and one was answered from
\* his recent row
C27_Witness ==
    LET events == call_result.events
        matches == call_result.matches
    IN  /\ call_result.pc = "done"
        /\ \E i, j \in DOMAIN events :
              /\ i < j
              /\ events[i].kind = "oracle" /\ events[j].kind = "oracle"
              /\ events[i].candidate_id # events[j].candidate_id
        /\ \E m \in DOMAIN matches : matches[m].source = "database"


\* C28: a call of calculate_match_score with activate_tags false never returns
\* the result of the tag short-circuit (reason "Aucun tag commun", total 0.0),
\* whatever an earlier call stored for the same job and candidate.
C28_ResultRespectsActivateTags ==
    (sc.pc = "done" /\ ~sc.activate_tags /\ sc.result # None) =>
        ValueOf(sc.result).reason # no_common_tag_result.reason


\* C29: tier agreement.  After any interleaving of concurrent saves for the
\* same kind and pair, a save whose durable write fails included, whenever the
\* fast tier and the durable tier both hold an entry for the key, the two
\* scores are equal.
C29_TiersAgree ==
    \A kind \in CacheTypes, p \in SimPairs :
        (/\ CacheKeyOf[kind, p[1], p[2]] \in DOMAIN redis
         /\ SortedOf[p[1], p[2]] \in DOMAIN pg[kind]) =>
            redis[CacheKeyOf[kind, p[1], p[2]]] = pg[kind][SortedOf[p[1], p[2]]].score


\* the required skills whose category is 'obligatoire' or 'recommandé'
recognized_skills(required_skills) ==
    SelectSeq(required_skills,
              LAMBDA info : lower(info.category) \in {"obligatoire", "recommande"})

\* C30: a required hard skill whose category is neither 'obligatoire' nor
\* 'recommandé' enters neither average, and wherever it stands in the required
\* list it neither makes compare_hard_skills fail nor changes the contribution or
\* the reported score of another required skill.
C30_UnrecognizedCategory ==
    LET args == ValueOf(call_args)
        result == ValueOf(call_result)
        recognized == recognized_skills(args.required_skills)
        without == compare_hard_skills(args.candidate_skills, recognized, args.sim)
    IN  (/\ call_result # None
         /\ args.candidate_skills # <<>>
         /\ recognized # args.required_skills) =>
            /\ ~result.raised
            /\ result.obligatory_scores = without.obligatory_scores
            /\ result.recommended_scores = without.recommended_scores
            /\ \A k \in DOMAIN recognized :
                  result.detailed_scores[recognized[k].skill]
                      = without.detailed_scores[recognized[k].skill]


====
